---- MODULE Spec2Model ----
(***************************************************************************)
(* Model of the Firestore-backed memory store (store.ts): the retry       *)
(* executor withRetry, the whole-collection cache, and the operations of  *)
(* FirestoreMemoryStore against a backend collection of documents.        *)
(*                                                                         *)
(* Strings are sequences of one-character strings so that toLowerCase,    *)
(* includes and split are computed, not assumed.  Instants are integer    *)
(* milliseconds; a null instant is NullTime.  An optional input is None   *)
(* (absent) or Some(v).                                                   *)
(***************************************************************************)
EXTENDS Integers, Sequences, FiniteSets, TLC

VARIABLES
    docs,            \* backend collection: document id -> document data
    used,            \* ids the backend has ever held (auto-ids are never reused)
    cache,           \* FirestoreMemoryStore.cache: [present, mems]
    cacheTimestamp,  \* FirestoreMemoryStore.cacheTimestamp
    now,             \* Date.now() / backend clock, in ms
    hasEmbeddings,   \* whether an EmbeddingService was injected
    ticks,           \* number of clock advances so far
    ret,             \* outcome of the last store operation at the current instant
    rt,              \* state of one withRetry execution
    gem,             \* state of one GeminiProvider.embedBatch execution
    refresh          \* a getAll suspended in getCachedMemories at collection.get()

vars == <<docs, used, cache, cacheTimestamp, now, ticks, hasEmbeddings, ret, rt, gem, refresh>>

storeVars == <<docs, used, cache, cacheTimestamp, now, ticks, hasEmbeddings, ret, gem,
              refresh>>

----------------------------------------------------------------------------
(* Bounds of the model *)

NumIds == 2          \* document ids are 1..NumIds
MaxTicks == 2        \* number of clock advances in one behaviour

(* Program constants *)

MAX_RETRIES == 3
BASE_DELAY_MS == 500
CACHE_TTL_MS == 300000
UNAVAILABLE == 14
DEADLINE_EXCEEDED == 4
RETRYABLE_CODES == {UNAVAILABLE, DEADLINE_EXCEEDED}
HOUR_MS == 3600000
BULK_LIMIT == 20
TAG_QUERY_LIMIT == 30

StartTime == 1000000
NullTime == 0 - 1

Ids == 1..NumIds

None == <<>>
Some(v) == <<v>>
IsSome(o) == o # <<>>
Get(o) == o[1]
OrElse(o, dflt) == IF o = <<>> THEN dflt ELSE o[1]

----------------------------------------------------------------------------
(* Strings *)

\* the lower-case letter of every upper-case letter
UpperToLower ==
    ("A" :> "a") @@ ("B" :> "b") @@ ("C" :> "c") @@ ("D" :> "d") @@ ("E" :> "e") @@ ("F" :> "f") @@ ("G" :> "g") @@
    ("H" :> "h") @@ ("I" :> "i") @@ ("J" :> "j") @@ ("K" :> "k") @@ ("L" :> "l") @@ ("M" :> "m") @@ ("N" :> "n") @@
    ("O" :> "o") @@ ("P" :> "p") @@ ("Q" :> "q") @@ ("R" :> "r") @@ ("S" :> "s") @@ ("T" :> "t") @@ ("U" :> "u") @@
    ("V" :> "v") @@ ("W" :> "w") @@ ("X" :> "x") @@ ("Y" :> "y") @@ ("Z" :> "z")

ToLowerChar(c) == IF c \in DOMAIN UpperToLower THEN UpperToLower[c] ELSE c

\* a conversion that leaves the case as it is
toLowerCaseIdentity(s) == s

toLowerCase(s) == [i \in 1..Len(s) |-> ToLowerChar(s[i])]

\* String.prototype.includes: needle occurs as a contiguous run of hay
includes(hay, needle) ==
    \E k \in 0..(Len(hay) - Len(needle)) :
        \A i \in 1..Len(needle) : hay[k + i] = needle[i]

SeqMap(f(_), s) == [i \in 1..Len(s) |-> f(s[i])]

Range(s) == {s[i] : i \in 1..Len(s)}

Take(s, n) == SubSeq(s, 1, IF n < Len(s) THEN n ELSE Len(s))

----------------------------------------------------------------------------
(* Documents and the Memory view of a document *)

MkData(fact, tags, pinned, relatedTo, expiresAt, createdAt, updatedAt, embedding) ==
    [fact |-> fact, tags |-> tags, pinned |-> pinned, relatedTo |-> relatedTo,
     expiresAt |-> expiresAt, createdAt |-> createdAt, updatedAt |-> updatedAt,
     embedding |-> embedding]

exists(d, id) == id \in DOMAIN d

docToMemory(d, id) ==
    [id |-> id,
     fact |-> d[id].fact,
     tags |-> d[id].tags,
     pinned |-> d[id].pinned = TRUE,
     relatedTo |-> d[id].relatedTo,
     expiresAt |-> d[id].expiresAt,
     createdAt |-> d[id].createdAt,
     updatedAt |-> d[id].updatedAt]

\* an expiry check that never fires
isExpiredNever(memory, t) == FALSE

isExpired(memory, t) ==
    IF memory.expiresAt = NullTime THEN FALSE
    ELSE memory.expiresAt < t

\* FieldValue.arrayUnion / arrayRemove on an array field
arrayUnion(arr, x) == IF x \in Range(arr) THEN arr ELSE Append(arr, x)
arrayRemove(arr, x) == SelectSeq(arr, LAMBDA y : y # x)

----------------------------------------------------------------------------
(* Backend write batches (db.batch(): set / update / delete, then commit) *)

WSet(id, data) == [k |-> "set", id |-> id, data |-> data]
WDelete(id) == [k |-> "delete", id |-> id]
WUnion(id, x) == [k |-> "union", id |-> id, x |-> x]
WRemove(id, x) == [k |-> "remove", id |-> id, x |-> x]

IsUpdate(w) == w.k \in {"union", "remove"}

\* One write of a batch applied to the collection d at backend time t.
\* An update addressed to an absent document changes nothing here; whether
\* the commit as a whole is rejected for it is decided by commitRejected.
applyWrite(d, w, t) ==
    CASE w.k = "set" ->
            [i \in (DOMAIN d) \cup {w.id} |-> IF i = w.id THEN w.data ELSE d[i]]
      [] w.k = "delete" ->
            [i \in (DOMAIN d) \ {w.id} |-> d[i]]
      [] w.k = "union" ->
            IF exists(d, w.id)
            THEN [d EXCEPT ![w.id].relatedTo = arrayUnion(@, w.x),
                           ![w.id].updatedAt = t]
            ELSE d
      [] w.k = "remove" ->
            IF exists(d, w.id)
            THEN [d EXCEPT ![w.id].relatedTo = arrayRemove(@, w.x),
                           ![w.id].updatedAt = t]
            ELSE d

RECURSIVE applyWrites(_, _, _)
applyWrites(d, writes, t) ==
    IF writes = <<>> THEN d
    ELSE applyWrites(applyWrite(d, Head(writes), t), Tail(writes), t)

\* A backend that enforces the "document must exist" precondition of update
\* rejects the whole batch; the batch is all-or-nothing.
commitRejected(d, writes, strict) ==
    strict /\ \E i \in 1..Len(writes) : IsUpdate(writes[i]) /\ ~exists(d, writes[i].id)

batchCommit(d, writes, t, strict) ==
    IF commitRejected(d, writes, strict) THEN d ELSE applyWrites(d, writes, t)

----------------------------------------------------------------------------
(* Cache *)

NoCache == [present |-> FALSE, mems |-> <<>>]

\* the ids of S in increasing order
SortedIds(S) ==
    LET n == Cardinality(S)
    IN SubSeq([p \in 1..n |-> CHOOSE x \in S : Cardinality({y \in S : y < x}) = p - 1],
              1, n)

\* collection.get(): every document, in document-id order, decoded
Snapshot(d) == LET ids == SortedIds(DOMAIN d)
               IN [i \in 1..Len(ids) |-> docToMemory(d, ids[i])]

\* a freshness test that still accepts a snapshot whose age equals the TTL
cacheFreshInclusive == cache.present /\ (now - cacheTimestamp <= CACHE_TTL_MS)

cacheFresh == cache.present /\ (now - cacheTimestamp < CACHE_TTL_MS)

\* getCachedMemories: the snapshot the read works on
cachedMemories == IF cacheFresh THEN cache.mems ELSE Snapshot(docs)

invalidateCache == cache' = NoCache /\ cacheTimestamp' = 0

----------------------------------------------------------------------------
(* Outcome records *)

Returned(op, args, value, commits) ==
    [op |-> op, args |-> args, threw |-> FALSE, value |-> value,
     fetched |-> FALSE, commits |-> commits]

Threw(op, args, err) ==
    [op |-> op, args |-> args, threw |-> TRUE, value |-> err,
     fetched |-> FALSE, commits |-> 0]

\* no operation has returned at the current instant
NoOutcome ==
    [op |-> "none", args |-> <<>>, threw |-> FALSE, value |-> <<>>,
     fetched |-> FALSE, commits |-> 0]

NotFound(id) == [code |-> None, msg |-> "not found", id |-> id]
BackendNotFound == [code |-> Some(5), msg |-> "NOT_FOUND", id |-> 0]

BulkResult(ids, errors) ==
    [succeeded |-> Len(ids), failed |-> Len(errors), ids |-> ids, errors |-> errors]

expiryOf(ttl_hours) ==
    IF IsSome(ttl_hours) /\ Get(ttl_hours) > 0
    THEN now + Get(ttl_hours) * HOUR_MS
    ELSE NullTime

\* embed / embedBatch outcome e: "vector", "empty" or "throw" (caught)
vectorStored(e) == hasEmbeddings /\ e = "vector"

----------------------------------------------------------------------------
(* Mutating operations.  The backend answers every call; an error thrown   *)
(* by a handler carries no retryable code, so withRetry runs it once.      *)

\* collection.add / collection.doc(): an auto-generated id the backend never held
FreshIds == Ids \ used

\* add whose embedding call is outside any try/catch (the error is written 0)
addUnguarded(input, e) ==
    IF hasEmbeddings /\ e = "throw"
    THEN /\ ret' = Threw("add", input, 0)
         /\ UNCHANGED <<docs, used, cache, cacheTimestamp, now, ticks, hasEmbeddings, rt, gem, refresh>>
    ELSE \E id \in FreshIds :
        LET data == MkData(input.fact,
                           SeqMap(toLowerCase, OrElse(input.tags, <<>>)),
                           OrElse(input.pinned, FALSE),
                           <<>>,
                           expiryOf(input.ttl_hours),
                           now, now,
                           vectorStored(e))
        IN /\ docs' = applyWrite(docs, WSet(id, data), now)
           /\ used' = used \cup {id}
           /\ invalidateCache
           /\ ret' = Returned("add", input, id, 0)
           /\ UNCHANGED <<now, ticks, hasEmbeddings, rt, gem, refresh>>

add(input, e) ==
    \E id \in FreshIds :
        LET data == MkData(input.fact,
                           SeqMap(toLowerCase, OrElse(input.tags, <<>>)),
                           OrElse(input.pinned, FALSE),
                           <<>>,
                           expiryOf(input.ttl_hours),
                           now, now,
                           vectorStored(e))
        IN /\ docs' = applyWrite(docs, WSet(id, data), now)
           /\ used' = used \cup {id}
           /\ invalidateCache
           /\ ret' = Returned("add", input, id, 0)
           /\ UNCHANGED <<now, ticks, hasEmbeddings, rt, gem, refresh>>

\* update that drops the cached snapshot before it looks for the document
updateInvalidatingFirst(id, updates, e) ==
    IF ~exists(docs, id)
    THEN /\ ret' = Threw("update", <<id, updates>>, NotFound(id))
         /\ invalidateCache
         /\ UNCHANGED <<docs, used, now, ticks, hasEmbeddings, rt, gem, refresh>>
    ELSE LET old == docs[id]
             new == [old EXCEPT
                        !.updatedAt = now,
                        !.fact = IF IsSome(updates.fact) THEN Get(updates.fact) ELSE @,
                        !.tags = IF IsSome(updates.tags)
                                 THEN SeqMap(toLowerCase, Get(updates.tags)) ELSE @,
                        !.pinned = IF IsSome(updates.pinned) THEN Get(updates.pinned) ELSE @,
                        !.embedding = IF IsSome(updates.fact) /\ vectorStored(e)
                                      THEN TRUE ELSE @]
         IN /\ docs' = [docs EXCEPT ![id] = new]
            /\ invalidateCache
            /\ ret' = Returned("update", <<id, updates>>, docToMemory(docs', id), 0)
            /\ UNCHANGED <<used, now, ticks, hasEmbeddings, rt, gem, refresh>>

update(id, updates, e) ==
    IF ~exists(docs, id)
    THEN /\ ret' = Threw("update", <<id, updates>>, NotFound(id))
         /\ UNCHANGED <<docs, used, cache, cacheTimestamp, now, ticks, hasEmbeddings, rt, gem, refresh>>
    ELSE LET old == docs[id]
             new == [old EXCEPT
                        !.updatedAt = now,
                        !.fact = IF IsSome(updates.fact) THEN Get(updates.fact) ELSE @,
                        !.tags = IF IsSome(updates.tags)
                                 THEN SeqMap(toLowerCase, Get(updates.tags)) ELSE @,
                        !.pinned = IF IsSome(updates.pinned) THEN Get(updates.pinned) ELSE @,
                        !.embedding = IF IsSome(updates.fact) /\ vectorStored(e)
                                      THEN TRUE ELSE @]
         IN /\ docs' = [docs EXCEPT ![id] = new]
            /\ invalidateCache
            /\ ret' = Returned("update", <<id, updates>>, docToMemory(docs', id), 0)
            /\ UNCHANGED <<used, now, ticks, hasEmbeddings, rt, gem, refresh>>

delete(id) ==
    IF ~exists(docs, id)
    THEN /\ ret' = Returned("delete", id, FALSE, 0)
         /\ UNCHANGED <<docs, used, cache, cacheTimestamp, now, ticks, hasEmbeddings, rt, gem, refresh>>
    ELSE /\ docs' = applyWrite(docs, WDelete(id), now)
         /\ invalidateCache
         /\ ret' = Returned("delete", id, TRUE, 0)
         /\ UNCHANGED <<used, now, ticks, hasEmbeddings, rt, gem, refresh>>

\* togglePin that treats an expired record as absent
togglePinHidingExpired(id) ==
    IF ~exists(docs, id) \/ isExpired(docToMemory(docs, id), now)
    THEN /\ ret' = Threw("togglePin", id, NotFound(id))
         /\ UNCHANGED <<docs, used, cache, cacheTimestamp, now, ticks, hasEmbeddings, rt, gem, refresh>>
    ELSE LET currentPinned == docs[id].pinned = TRUE
         IN /\ docs' = [docs EXCEPT ![id].pinned = ~currentPinned,
                                    ![id].updatedAt = now]
            /\ ret' = Returned("togglePin", id, docToMemory(docs', id), 0)
            /\ UNCHANGED <<used, cache, cacheTimestamp, now, ticks, hasEmbeddings, rt, gem, refresh>>

togglePin(id) ==
    IF ~exists(docs, id)
    THEN /\ ret' = Threw("togglePin", id, NotFound(id))
         /\ UNCHANGED <<docs, used, cache, cacheTimestamp, now, ticks, hasEmbeddings, rt, gem, refresh>>
    ELSE LET currentPinned == docs[id].pinned = TRUE
         IN /\ docs' = [docs EXCEPT ![id].pinned = ~currentPinned,
                                    ![id].updatedAt = now]
            /\ ret' = Returned("togglePin", id, docToMemory(docs', id), 0)
            /\ UNCHANGED <<used, cache, cacheTimestamp, now, ticks, hasEmbeddings, rt, gem, refresh>>

\* Auto-generated ids are opaque.  A batch of at most NumIds records takes
\* its ids from Ids in every possible way; a larger batch takes the unused
\* ids of a second range, in increasing order.
OverflowIds == (NumIds + 1)..(NumIds + BULK_LIMIT)

FreshIdSeqs(n) ==
    IF n <= NumIds
    THEN {s \in [1..n -> FreshIds] : \A i, j \in 1..n : i # j => s[i] # s[j]}
    ELSE IF Cardinality(OverflowIds \ used) >= n
    THEN {Take(SortedIds(OverflowIds \ used), n)}
    ELSE {}

\* addBulk that reports the inputs beyond the 20th as failed
addBulkReportingSurplus(inputs, e) ==
    LET clamped == Take(inputs, BULK_LIMIT)
        surplus == SubSeq(inputs, Len(clamped) + 1, Len(inputs))
    IN \E ids \in FreshIdSeqs(Len(clamped)) :
        LET dataOf(i) == MkData(clamped[i].fact,
                                OrElse(clamped[i].tags, <<>>),
                                OrElse(clamped[i].pinned, FALSE),
                                <<>>,
                                expiryOf(clamped[i].ttl_hours),
                                now, now,
                                vectorStored(e))
            batch == [i \in 1..Len(clamped) |-> WSet(ids[i], dataOf(i))]
        IN /\ docs' = batchCommit(docs, batch, now, FALSE)
           /\ used' = used \cup Range(ids)
           /\ invalidateCache
           /\ ret' = Returned("addBulk", inputs,
                              BulkResult(ids, SeqMap(LAMBDA x : "beyond the limit", surplus)), 1)
           /\ UNCHANGED <<now, ticks, hasEmbeddings, rt, gem, refresh>>

addBulk(inputs, e) ==
    LET clamped == Take(inputs, BULK_LIMIT)
    IN \E ids \in FreshIdSeqs(Len(clamped)) :
        LET dataOf(i) == MkData(clamped[i].fact,
                                OrElse(clamped[i].tags, <<>>),
                                OrElse(clamped[i].pinned, FALSE),
                                <<>>,
                                expiryOf(clamped[i].ttl_hours),
                                now, now,
                                vectorStored(e))
            batch == [i \in 1..Len(clamped) |-> WSet(ids[i], dataOf(i))]
        IN /\ docs' = batchCommit(docs, batch, now, FALSE)
           /\ used' = used \cup Range(ids)
           /\ invalidateCache
           /\ ret' = Returned("addBulk", inputs, BulkResult(ids, <<>>), 1)
           /\ UNCHANGED <<now, ticks, hasEmbeddings, rt, gem, refresh>>

\* deleteBulk that considers every id it is given
deleteBulkUnclamped(memoryIds) ==
    LET clamped == memoryIds
        ids == SelectSeq(clamped, LAMBDA id : exists(docs, id))
        errors == SeqMap(LAMBDA id : [id |-> id, msg |-> "not found"],
                         SelectSeq(clamped, LAMBDA id : ~exists(docs, id)))
        batch == [i \in 1..Len(ids) |-> WDelete(ids[i])]
    IN /\ docs' = IF Len(ids) > 0 THEN batchCommit(docs, batch, now, FALSE) ELSE docs
       /\ invalidateCache
       /\ ret' = Returned("deleteBulk", memoryIds, BulkResult(ids, errors),
                          IF Len(ids) > 0 THEN 1 ELSE 0)
       /\ UNCHANGED <<used, now, ticks, hasEmbeddings, rt, gem, refresh>>

deleteBulk(memoryIds) ==
    LET clamped == Take(memoryIds, BULK_LIMIT)
        ids == SelectSeq(clamped, LAMBDA id : exists(docs, id))
        errors == SeqMap(LAMBDA id : [id |-> id, msg |-> "not found"],
                         SelectSeq(clamped, LAMBDA id : ~exists(docs, id)))
        batch == [i \in 1..Len(ids) |-> WDelete(ids[i])]
    IN /\ docs' = IF Len(ids) > 0 THEN batchCommit(docs, batch, now, FALSE) ELSE docs
       /\ invalidateCache
       /\ ret' = Returned("deleteBulk", memoryIds, BulkResult(ids, errors),
                          IF Len(ids) > 0 THEN 1 ELSE 0)
       /\ UNCHANGED <<used, now, ticks, hasEmbeddings, rt, gem, refresh>>

\* the document importAll writes for one imported memory
importData(memory, e) ==
    MkData(memory.fact,
           memory.tags,
           memory.pinned,
           memory.relatedTo,
           memory.expiresAt,
           IF memory.createdAt # NullTime THEN memory.createdAt ELSE now,
           now,
           vectorStored(e))

\* the chunk loop of importAll: one batch per chunk of BULK_LIMIT memories
RECURSIVE importChunks(_, _, _, _, _, _, _)
importChunks(d, rest, mode, ids, errors, commits, e) ==
    IF rest = <<>>
    THEN [docs |-> d, ids |-> ids, errors |-> errors, commits |-> commits]
    ELSE LET chunk == Take(rest, BULK_LIMIT)
             after == SubSeq(rest, Len(chunk) + 1, Len(rest))
             existingDocs == IF mode = "merge"
                             THEN {chunk[i].id : i \in 1..Len(chunk)} \cap DOMAIN d
                             ELSE {}
             written == SelectSeq(chunk, LAMBDA m : m.id \notin existingDocs)
             skipped == SelectSeq(chunk, LAMBDA m : m.id \in existingDocs)
             batch == SeqMap(LAMBDA m : WSet(m.id, importData(m, e)), written)
             ids2 == ids \o SeqMap(LAMBDA m : m.id, written)
             errors2 == errors \o
                        SeqMap(LAMBDA m : [id |-> m.id, msg |-> "already exists (skipped)"],
                               skipped)
             d2 == IF Len(ids2) > 0 THEN batchCommit(d, batch, now, FALSE) ELSE d
             commits2 == IF Len(ids2) > 0 THEN commits + 1 ELSE commits
         IN importChunks(d2, after, mode, ids2, errors2, commits2, e)

\* importAll whose chunk loop never looks for the ids already stored
importAllUnchecked(data, mode, e) ==
    LET existing == SortedIds(DOMAIN docs)
        deleteBatch == SeqMap(WDelete, existing)
        wiped == mode = "replace" /\ Len(existing) > 0
    IN \E d0 \in {IF wiped THEN batchCommit(docs, deleteBatch, now, FALSE) ELSE docs} :
        LET r == importChunks(d0, data.memories, "replace", <<>>, <<>>,
                              IF wiped THEN 1 ELSE 0, e)
        IN /\ docs' = r.docs
           /\ used' = used \cup Range(r.ids)
           /\ IF data.memories # <<>>
              THEN invalidateCache
              ELSE UNCHANGED <<cache, cacheTimestamp>>
           /\ ret' = Returned("importAll", <<data, mode>>, BulkResult(r.ids, r.errors),
                              r.commits)
           /\ UNCHANGED <<now, ticks, hasEmbeddings, rt, gem, refresh>>

importAll(data, mode, e) ==
    LET existing == SortedIds(DOMAIN docs)
        deleteBatch == SeqMap(WDelete, existing)
        wiped == mode = "replace" /\ Len(existing) > 0
    IN \E d0 \in {IF wiped THEN batchCommit(docs, deleteBatch, now, FALSE) ELSE docs} :
        LET r == importChunks(d0, data.memories, mode, <<>>, <<>>,
                              IF wiped THEN 1 ELSE 0, e)
        IN /\ docs' = r.docs
           /\ used' = used \cup Range(r.ids)
           /\ IF data.memories # <<>>
              THEN invalidateCache
              ELSE UNCHANGED <<cache, cacheTimestamp>>
           /\ ret' = Returned("importAll", <<data, mode>>, BulkResult(r.ids, r.errors),
                              r.commits)
           /\ UNCHANGED <<now, ticks, hasEmbeddings, rt, gem, refresh>>

----------------------------------------------------------------------------
(* Relationships and cleanup *)

\* link that writes only the first side
linkOneSided(id1, id2) ==
    IF ~exists(docs, id1) \/ ~exists(docs, id2)
    THEN /\ ret' = Threw("link", <<id1, id2>>, NotFound(id1))
         /\ UNCHANGED <<docs, used, cache, cacheTimestamp, now, ticks, hasEmbeddings, rt, gem, refresh>>
    ELSE /\ docs' = batchCommit(docs, <<WUnion(id1, id2)>>, now, TRUE)
         /\ invalidateCache
         /\ ret' = Returned("link", <<id1, id2>>, <<>>, 1)
         /\ UNCHANGED <<used, now, ticks, hasEmbeddings, rt, gem, refresh>>

\* link that checks only the first id, on a backend that skips the update of
\* an absent document
linkSecondUnchecked(id1, id2) ==
    IF ~exists(docs, id1)
    THEN /\ ret' = Threw("link", <<id1, id2>>, NotFound(id1))
         /\ UNCHANGED <<docs, used, cache, cacheTimestamp, now, ticks, hasEmbeddings, rt, gem, refresh>>
    ELSE LET batch == <<WUnion(id1, id2), WUnion(id2, id1)>>
         IN /\ docs' = batchCommit(docs, batch, now, FALSE)
            /\ invalidateCache
            /\ ret' = Returned("link", <<id1, id2>>, <<>>, 1)
            /\ UNCHANGED <<used, now, ticks, hasEmbeddings, rt, gem, refresh>>

link(id1, id2) ==
    IF ~exists(docs, id1)
    THEN /\ ret' = Threw("link", <<id1, id2>>, NotFound(id1))
         /\ UNCHANGED <<docs, used, cache, cacheTimestamp, now, ticks, hasEmbeddings, rt, gem, refresh>>
    ELSE IF ~exists(docs, id2)
    THEN /\ ret' = Threw("link", <<id1, id2>>, NotFound(id2))
         /\ UNCHANGED <<docs, used, cache, cacheTimestamp, now, ticks, hasEmbeddings, rt, gem, refresh>>
    ELSE LET batch == <<WUnion(id1, id2), WUnion(id2, id1)>>
         IN /\ docs' = batchCommit(docs, batch, now, TRUE)
            /\ invalidateCache
            /\ ret' = Returned("link", <<id1, id2>>, <<>>, 1)
            /\ UNCHANGED <<used, now, ticks, hasEmbeddings, rt, gem, refresh>>

\* strict: whether the backend enforces update's "document exists"
\* precondition (Firestore rejects the batch with NOT_FOUND) or treats the
\* update of an absent document as a no-op (as the test doubles do).
unlink(id1, id2, strict) ==
    LET batch == <<WRemove(id1, id2), WRemove(id2, id1)>>
    IN IF commitRejected(docs, batch, strict)
       THEN /\ ret' = Threw("unlink", <<id1, id2>>, BackendNotFound)
            /\ UNCHANGED <<docs, used, cache, cacheTimestamp, now, ticks, hasEmbeddings, rt, gem, refresh>>
       ELSE /\ docs' = batchCommit(docs, batch, now, strict)
            /\ invalidateCache
            /\ ret' = Returned("unlink", <<id1, id2>>, <<>>, 1)
            /\ UNCHANGED <<used, now, ticks, hasEmbeddings, rt, gem, refresh>>

\* the backends that can be told apart by an update of id1 and id2
BackendKinds(id1, id2) ==
    IF exists(docs, id1) /\ exists(docs, id2) THEN {TRUE} ELSE BOOLEAN

\* cleanupExpired whose query leaves out the records that expire right now
cleanupExpiredStrict ==
    LET hits == SortedIds({id \in DOMAIN docs :
                    docs[id].expiresAt # NullTime /\ docs[id].expiresAt < now})
        batch == SeqMap(WDelete, hits)
    IN IF hits = <<>>
       THEN /\ ret' = Returned("cleanupExpired", <<>>, 0, 0)
            /\ UNCHANGED <<docs, used, cache, cacheTimestamp, now, ticks, hasEmbeddings, rt, gem, refresh>>
       ELSE /\ docs' = batchCommit(docs, batch, now, FALSE)
            /\ invalidateCache
            /\ ret' = Returned("cleanupExpired", <<>>, Len(hits), 1)
            /\ UNCHANGED <<used, now, ticks, hasEmbeddings, rt, gem, refresh>>

cleanupExpired ==
    LET hits == SortedIds({id \in DOMAIN docs :
                    docs[id].expiresAt # NullTime /\ docs[id].expiresAt <= now})
        batch == SeqMap(WDelete, hits)
    IN IF hits = <<>>
       THEN /\ ret' = Returned("cleanupExpired", <<>>, 0, 0)
            /\ UNCHANGED <<docs, used, cache, cacheTimestamp, now, ticks, hasEmbeddings, rt, gem, refresh>>
       ELSE /\ docs' = batchCommit(docs, batch, now, FALSE)
            /\ invalidateCache
            /\ ret' = Returned("cleanupExpired", <<>>, Len(hits), 1)
            /\ UNCHANGED <<used, now, ticks, hasEmbeddings, rt, gem, refresh>>

----------------------------------------------------------------------------
(* Relevance scoring.  Scores are exact fractions [n, d] with d > 0; a     *)
(* rounded relevance is an integer number of hundredths.                   *)

Frac(n, d) == [n |-> n, d |-> d]
FAdd(a, b) == Frac(a.n * b.d + b.n * a.d, a.d * b.d)
FLeq(a, b) == a.n * b.d <= b.n * a.d
FMax(a, b) == IF FLeq(a, b) THEN b ELSE a
FMin(a, b) == IF FLeq(a, b) THEN a ELSE b

\* Math.round(x * 100), x >= 0
roundHundredths(x) == (200 * x.n + x.d) \div (2 * x.d)

\* s.split(/\s+/).filter(Boolean)
RECURSIVE splitWords(_, _, _)
splitWords(s, i, cur) ==
    IF i > Len(s)
    THEN IF cur = <<>> THEN <<>> ELSE <<cur>>
    ELSE IF s[i] = " "
         THEN (IF cur = <<>> THEN <<>> ELSE <<cur>>) \o splitWords(s, i + 1, <<>>)
         ELSE splitWords(s, i + 1, Append(cur, s[i]))

words(s) == splitWords(s, 1, <<>>)

\* best partial match of query word qw against the word set factWords
bestPartial(qw, factWords) ==
    LET credit(fw) == IF includes(fw, qw) THEN Frac(Len(qw), Len(fw))
                      ELSE IF includes(qw, fw) THEN Frac(Len(fw), Len(qw))
                      ELSE Frac(0, 1)
        RECURSIVE best(_)
        best(S) == IF S = {} THEN Frac(0, 1)
                   ELSE LET fw == CHOOSE x \in S : TRUE
                        IN FMax(credit(fw), best(S \ {fw}))
    IN best(factWords)

\* scoring without the substring shortcut
computeRelevanceWordsOnly(fact, query, tags) ==
    LET factLower == toLowerCase(fact)
        queryLower == toLowerCase(query)
        queryWords == words(queryLower)
        factWords == Range(words(factLower)) \cup {toLowerCase(tags[i]) : i \in 1..Len(tags)}
        matchedWords == Cardinality({i \in 1..Len(queryWords) : queryWords[i] \in factWords})
        RECURSIVE partialSum(_)
        partialSum(i) ==
            IF i > Len(queryWords) THEN Frac(0, 1)
            ELSE IF queryWords[i] \in factWords THEN partialSum(i + 1)
            ELSE FAdd(bestPartial(queryWords[i], factWords), partialSum(i + 1))
        partialScore == partialSum(1)
        wordScore == Frac(8 * matchedWords, 10 * Len(queryWords))
        partialWordScore == Frac(4 * partialScore.n, 10 * Len(queryWords) * partialScore.d)
    IN IF Len(queryWords) = 0 THEN Frac(0, 1)
       ELSE FMin(FAdd(wordScore, partialWordScore), Frac(95, 100))

computeRelevance(fact, query, tags) ==
    LET factLower == toLowerCase(fact)
        queryLower == toLowerCase(query)
        queryWords == words(queryLower)
        factWords == Range(words(factLower)) \cup {toLowerCase(tags[i]) : i \in 1..Len(tags)}
        matchedWords == Cardinality({i \in 1..Len(queryWords) : queryWords[i] \in factWords})
        RECURSIVE partialSum(_)
        partialSum(i) ==
            IF i > Len(queryWords) THEN Frac(0, 1)
            ELSE IF queryWords[i] \in factWords THEN partialSum(i + 1)
            ELSE FAdd(bestPartial(queryWords[i], factWords), partialSum(i + 1))
        partialScore == partialSum(1)
        wordScore == Frac(8 * matchedWords, 10 * Len(queryWords))
        partialWordScore == Frac(4 * partialScore.n, 10 * Len(queryWords) * partialScore.d)
    IN IF includes(factLower, queryLower) THEN Frac(1, 1)
       ELSE IF Len(queryWords) = 0 THEN Frac(0, 1)
       ELSE FMin(FAdd(wordScore, partialWordScore), Frac(95, 100))

----------------------------------------------------------------------------
(* Sorting: Array.prototype.sort is stable *)

\* pos[i] is the place of s[i] in the sorted array: after every element with
\* a smaller key and every earlier element with an equal key.  (SubSeq(f, 1, n)
\* is the sequence f itself, tabulated.)
StableSortByKey(s, key(_)) ==
    LET n == Len(s)
        keys == SubSeq([i \in 1..n |-> key(s[i])], 1, n)
        pos == SubSeq([i \in 1..n |->
                    1 + Cardinality({j \in 1..n :
                            \/ keys[j] < keys[i]
                            \/ (keys[j] = keys[i] /\ j < i)})], 1, n)
    IN SubSeq([p \in 1..n |-> s[CHOOSE i \in 1..n : pos[i] = p]], 1, n)

createdTime(m) == IF m.createdAt # NullTime THEN m.createdAt ELSE 0

sortNewestFirst(s) == StableSortByKey(s, LAMBDA m : 0 - createdTime(m))

\* a second sort that forgets the order the first one produced
sortPinnedFirstOldestFirst(s) ==
    StableSortByKey(s, LAMBDA m : (IF m.pinned THEN 0 ELSE 1) * 1000000000 + createdTime(m))

sortPinnedFirst(s) == StableSortByKey(s, LAMBDA m : IF m.pinned THEN 0 ELSE 1)

Min2(a, b) == IF a < b THEN a ELSE b
Max2(a, b) == IF a > b THEN a ELSE b

\* Array.prototype.slice(from, to) with 0-based from, exclusive to
slice(s, from, to) ==
    IF from >= Len(s) THEN <<>> ELSE SubSeq(s, from + 1, Min2(to, Len(s)))

----------------------------------------------------------------------------
(* Read operations *)

ReturnedRead(op, args, value, fetched) ==
    [op |-> op, args |-> args, threw |-> FALSE, value |-> value,
     fetched |-> fetched, commits |-> 0]

\* getCachedMemories' effect on the cache fields
getCachedMemories ==
    IF cacheFresh
    THEN UNCHANGED <<cache, cacheTimestamp>>
    ELSE /\ cache' = [present |-> TRUE, mems |-> Snapshot(docs)]
         /\ cacheTimestamp' = now

notExpired(s) == SelectSeq(s, LAMBDA m : ~isExpired(m, now))

getById(id) ==
    LET memory == docToMemory(docs, id)
        value == IF ~exists(docs, id) THEN None
                 ELSE IF isExpired(memory, now) THEN None
                 ELSE Some(memory)
    IN /\ ret' = ReturnedRead("getById", id, value, TRUE)
       /\ UNCHANGED <<docs, used, cache, cacheTimestamp, now, ticks, hasEmbeddings, rt, gem, refresh>>

\* getAll without the clamp of limit
getAllUnclamped(options) ==
    LET limit == OrElse(options.limit, 50)
        offset == Max2(OrElse(options.offset, 0), 0)
        allDocs == cachedMemories
        all == sortPinnedFirst(sortNewestFirst(notExpired(allDocs)))
    IN /\ getCachedMemories
       /\ ret' = ReturnedRead("getAll", options, slice(all, offset, offset + limit), ~cacheFresh)
       /\ UNCHANGED <<docs, used, now, ticks, hasEmbeddings, rt, gem, refresh>>

getAll(options) ==
    LET limit == Min2(Max2(OrElse(options.limit, 50), 1), 200)
        offset == Max2(OrElse(options.offset, 0), 0)
        allDocs == cachedMemories
        all == sortPinnedFirst(sortNewestFirst(notExpired(allDocs)))
    IN /\ getCachedMemories
       /\ ret' = ReturnedRead("getAll", options, slice(all, offset, offset + limit), ~cacheFresh)
       /\ UNCHANGED <<docs, used, now, ticks, hasEmbeddings, rt, gem, refresh>>

search(query) ==
    LET allDocs == cachedMemories
        lowerQuery == toLowerCase(query)
        value == SelectSeq(notExpired(allDocs),
                           LAMBDA m : includes(toLowerCase(m.fact), lowerQuery))
    IN /\ getCachedMemories
       /\ ret' = ReturnedRead("search", query, value, ~cacheFresh)
       /\ UNCHANGED <<docs, used, now, ticks, hasEmbeddings, rt, gem, refresh>>

\* relevance of a scored memory is kept in hundredths
scoreMemory(memory, query) ==
    [memory |-> memory,
     relevance |-> roundHundredths(computeRelevance(memory.fact, query, memory.tags))]

tagBoost(sm, query) ==
    LET queryLower == toLowerCase(query)
    IN IF \E i \in 1..Len(sm.memory.tags) : includes(sm.memory.tags[i], queryLower)
       THEN [sm EXCEPT !.relevance = Min2(@ + 15, 100)]
       ELSE sm

smartSearch(query) ==
    LET allDocs == cachedMemories
        passing == SelectSeq(notExpired(allDocs),
                       LAMBDA m : FLeq(Frac(2, 10), computeRelevance(m.fact, query, m.tags)))
        scored == SeqMap(LAMBDA m : tagBoost(scoreMemory(m, query), query), passing)
        value == StableSortByKey(scored, LAMBDA sm : 0 - sm.relevance)
    IN /\ getCachedMemories
       /\ ret' = ReturnedRead("smartSearch", query, value, ~cacheFresh)
       /\ UNCHANGED <<docs, used, now, ticks, hasEmbeddings, rt, gem, refresh>>

searchByTags(tags) ==
    LET queryTags == SeqMap(toLowerCase, Take(tags, TAG_QUERY_LIMIT))
        matching == SelectSeq(Snapshot(docs),
                        LAMBDA m : \E i \in 1..Len(m.tags) : m.tags[i] \in Range(queryTags))
        value == IF Len(tags) = 0 THEN <<>> ELSE notExpired(matching)
    IN /\ ret' = ReturnedRead("searchByTags", tags, value, Len(tags) # 0)
       /\ UNCHANGED <<docs, used, cache, cacheTimestamp, now, ticks, hasEmbeddings, rt, gem, refresh>>

\* getRelated that returns the related memories whether expired or not
getRelatedKeepingExpired(id) ==
    IF ~exists(docs, id)
    THEN /\ ret' = Threw("getRelated", id, NotFound(id))
         /\ UNCHANGED <<docs, used, cache, cacheTimestamp, now, ticks, hasEmbeddings, rt, gem, refresh>>
    ELSE LET relatedIds == docs[id].relatedTo
             present == SelectSeq(relatedIds, LAMBDA rid : exists(docs, rid))
             results == SeqMap(LAMBDA rid : docToMemory(docs, rid), present)
         IN /\ ret' = ReturnedRead("getRelated", id, results, TRUE)
            /\ UNCHANGED <<docs, used, cache, cacheTimestamp, now, ticks, hasEmbeddings, rt, gem, refresh>>

getRelated(id) ==
    IF ~exists(docs, id)
    THEN /\ ret' = Threw("getRelated", id, NotFound(id))
         /\ UNCHANGED <<docs, used, cache, cacheTimestamp, now, ticks, hasEmbeddings, rt, gem, refresh>>
    ELSE LET relatedIds == docs[id].relatedTo
             present == SelectSeq(relatedIds, LAMBDA rid : exists(docs, rid))
             results == notExpired(SeqMap(LAMBDA rid : docToMemory(docs, rid), present))
         IN /\ ret' = ReturnedRead("getRelated", id, results, TRUE)
            /\ UNCHANGED <<docs, used, cache, cacheTimestamp, now, ticks, hasEmbeddings, rt, gem, refresh>>

\* sort() reorders the array it is called on, which is the cached array itself
exportAll ==
    LET allDocs == cachedMemories
        memories == sortNewestFirst(allDocs)
        value == [count |-> Len(memories), memories |-> memories, exportedAt |-> now]
    IN /\ cache' = [present |-> TRUE, mems |-> memories]
       /\ cacheTimestamp' = IF cacheFresh THEN cacheTimestamp ELSE now
       /\ ret' = ReturnedRead("exportAll", <<>>, value, ~cacheFresh)
       /\ UNCHANGED <<docs, used, now, ticks, hasEmbeddings, rt, gem, refresh>>

----------------------------------------------------------------------------
(* The clock *)

Tick(step) ==
    /\ ticks < MaxTicks
    /\ now' = now + step
    /\ ticks' = ticks + 1
    /\ ret' = NoOutcome
    /\ UNCHANGED <<docs, used, cache, cacheTimestamp, hasEmbeddings, rt, gem, refresh>>

----------------------------------------------------------------------------
(* withRetry: one execution of the retry executor around an action fn.     *)
(* Each invocation of fn either resolves with a value or rejects with an   *)
(* error; an error is [code, n] with n the invocation that raised it.      *)

RtIdle ==
    [pc |-> "idle", attempt |-> 0, calls |-> 0, delays |-> <<>>,
     outcomes |-> <<>>, lastError |-> None, delay |-> 0, result |-> None]

\* linear instead of exponential backoff
backoffDelayLinear(attempt) == BASE_DELAY_MS * (attempt + 1)

backoffDelay(attempt) == BASE_DELAY_MS * (2 ^ attempt)

\* retries whatever the error is
shouldRetryAnyError(attempt, code) == attempt < MAX_RETRIES

shouldRetry(attempt, code) ==
    attempt < MAX_RETRIES /\ IsSome(code) /\ Get(code) \in RETRYABLE_CODES

withRetryStart ==
    /\ rt.pc \in {"idle", "returned", "threw"}
    /\ rt' = [RtIdle EXCEPT !.pc = "calling"]
    /\ UNCHANGED storeVars

\* fn() resolves: return await fn()
withRetryResolve(value) ==
    /\ rt.pc = "calling"
    /\ rt.attempt <= MAX_RETRIES
    /\ rt' = [rt EXCEPT !.pc = "returned",
                        !.calls = @ + 1,
                        !.outcomes = Append(@, [ok |-> TRUE, value |-> value]),
                        !.result = Some(value)]
    /\ UNCHANGED storeVars

\* a catch block that keeps the first error instead of the last
withRetryRejectKeepFirst(code) ==
    /\ rt.pc = "calling"
    /\ rt.attempt <= MAX_RETRIES
    /\ LET err == [code |-> code, n |-> rt.calls + 1]
           kept == IF IsSome(rt.lastError) THEN rt.lastError ELSE Some(err)
       IN rt' = [rt EXCEPT
                    !.calls = @ + 1,
                    !.outcomes = Append(@, [ok |-> FALSE, value |-> err]),
                    !.lastError = kept,
                    !.delay = IF shouldRetry(rt.attempt, code)
                              THEN backoffDelay(rt.attempt) ELSE 0,
                    !.pc = IF shouldRetry(rt.attempt, code) THEN "sleeping" ELSE "threw",
                    !.result = IF shouldRetry(rt.attempt, code) THEN None ELSE kept]
    /\ UNCHANGED storeVars

\* fn() rejects: the catch block
withRetryReject(code) ==
    /\ rt.pc = "calling"
    /\ rt.attempt <= MAX_RETRIES
    /\ LET err == [code |-> code, n |-> rt.calls + 1]
       IN rt' = [rt EXCEPT
                    !.calls = @ + 1,
                    !.outcomes = Append(@, [ok |-> FALSE, value |-> err]),
                    !.lastError = Some(err),
                    !.delay = IF shouldRetry(rt.attempt, code)
                              THEN backoffDelay(rt.attempt) ELSE 0,
                    !.pc = IF shouldRetry(rt.attempt, code) THEN "sleeping" ELSE "threw",
                    !.result = IF shouldRetry(rt.attempt, code) THEN None ELSE Some(err)]
    /\ UNCHANGED storeVars

\* the setTimeout elapses and the loop goes to the next attempt
withRetryWake ==
    /\ rt.pc = "sleeping"
    /\ rt' = [rt EXCEPT !.pc = IF rt.attempt + 1 <= MAX_RETRIES THEN "calling" ELSE "threw",
                        !.attempt = @ + 1,
                        !.delays = Append(@, rt.delay),
                        !.delay = 0,
                        !.result = IF rt.attempt + 1 <= MAX_RETRIES THEN None ELSE rt.lastError]
    /\ UNCHANGED storeVars

----------------------------------------------------------------------------
(* Operations against a backend one of whose calls rejects once with an    *)
(* error of the given gRPC code and answers every later call.  call names  *)
(* the backend call that rejects.  An operation wrapped in withRetry       *)
(* sleeps backoffDelay(0) and runs its function again when the code is     *)
(* retryable; any other error, and any error of an operation that is not   *)
(* wrapped, reaches the caller.  A rejected call has written nothing.      *)

BackendError(code) == [code |-> Some(code), msg |-> "backend", id |-> 0]

\* delete: docRef.get() ("get") or docRef.delete() ("delete") rejects once
deleteFailingOnce(id, call, code) ==
    /\ ticks < MaxTicks
    /\ call \in {"get", "delete"}
    /\ call = "delete" => exists(docs, id)
    /\ IF shouldRetry(0, Some(code))
       THEN LET t == now + backoffDelay(0)
            IN /\ now' = t
               /\ ticks' = ticks + 1
               /\ IF ~exists(docs, id)
                  THEN /\ ret' = Returned("delete", id, FALSE, 0)
                       /\ UNCHANGED <<docs, cache, cacheTimestamp>>
                  ELSE /\ docs' = applyWrite(docs, WDelete(id), t)
                       /\ invalidateCache
                       /\ ret' = Returned("delete", id, TRUE, 0)
       ELSE /\ ret' = Threw("delete", id, BackendError(code))
            /\ UNCHANGED <<docs, cache, cacheTimestamp, now, ticks>>
    /\ UNCHANGED <<used, hasEmbeddings, rt, gem, refresh>>

\* togglePin: the first docRef.get() ("get"), docRef.update() ("update") or
\* the docRef.get() after the write ("refetch") rejects once.  When the
\* re-fetch rejects, the update of the first run is already stored and the
\* second run reads it.
togglePinFailingOnce(id, call, code) ==
    /\ ticks < MaxTicks
    /\ call \in {"get", "update", "refetch"}
    /\ call # "get" => exists(docs, id)
    /\ LET first == IF call = "refetch"
                    THEN [docs EXCEPT ![id].pinned = ~(docs[id].pinned = TRUE),
                                      ![id].updatedAt = now]
                    ELSE docs
       IN IF shouldRetry(0, Some(code))
          THEN LET t == now + backoffDelay(0)
               IN /\ now' = t
                  /\ ticks' = ticks + 1
                  /\ IF ~exists(first, id)
                     THEN /\ docs' = first
                          /\ ret' = Threw("togglePin", id, NotFound(id))
                     ELSE LET currentPinned == first[id].pinned = TRUE
                          IN /\ docs' = [first EXCEPT ![id].pinned = ~currentPinned,
                                                      ![id].updatedAt = t]
                             /\ ret' = Returned("togglePin", id, docToMemory(docs', id), 0)
          ELSE /\ docs' = first
               /\ ret' = Threw("togglePin", id, BackendError(code))
               /\ UNCHANGED <<now, ticks>>
    /\ UNCHANGED <<used, cache, cacheTimestamp, hasEmbeddings, rt, gem, refresh>>

\* addBulk: its batch.commit() rejects once; addBulk is not wrapped
addBulkFailingOnce(inputs, code) ==
    /\ ret' = Threw("addBulk", inputs, BackendError(code))
    /\ UNCHANGED <<docs, used, cache, cacheTimestamp, now, ticks, hasEmbeddings, rt, gem, refresh>>

\* deleteBulk: a docRef.get() ("get") or the batch.commit() ("commit")
\* rejects once; deleteBulk is not wrapped
deleteBulkFailingOnce(memoryIds, call, code) ==
    LET clamped == Take(memoryIds, BULK_LIMIT)
        ids == SelectSeq(clamped, LAMBDA id : exists(docs, id))
    IN /\ call \in {"get", "commit"}
       /\ call = "get" => Len(clamped) > 0
       /\ call = "commit" => Len(ids) > 0
       /\ ret' = Threw("deleteBulk", memoryIds, BackendError(code))
       /\ UNCHANGED <<docs, used, cache, cacheTimestamp, now, ticks, hasEmbeddings, rt, gem, refresh>>

\* the number of chunks of BULK_LIMIT that n memories make
Chunks(n) == (n + BULK_LIMIT - 1) \div BULK_LIMIT

\* importAll whose failure undoes the chunks it had committed
importAllRollingBack(data, mode, e, call, k, code) ==
    LET existing == SortedIds(DOMAIN docs)
        wiped == mode = "replace" /\ Len(existing) > 0
        inLoop == call \in {"getAll", "commit"}
    IN /\ call \in {"get", "wipe", "getAll", "commit"}
       /\ call = "get" => mode = "replace"
       /\ call = "wipe" => wiped
       /\ inLoop => k \in 1..Chunks(Len(data.memories))
       /\ call = "getAll" => mode = "merge"
       /\ ret' = Threw("importAll", <<data, mode>>, BackendError(code))
       /\ UNCHANGED <<docs, used, cache, cacheTimestamp, now, ticks, hasEmbeddings, rt, gem, refresh>>

\* importAll: collection.get() ("get") or the commit of the delete batch
\* ("wipe") of replace mode, or db.getAll ("getAll") or batch.commit()
\* ("commit") of chunk k rejects once; importAll is not wrapped
importAllFailingOnce(data, mode, e, call, k, code) ==
    LET existing == SortedIds(DOMAIN docs)
        deleteBatch == SeqMap(WDelete, existing)
        wiped == mode = "replace" /\ Len(existing) > 0
        inLoop == call \in {"getAll", "commit"}
    IN /\ call \in {"get", "wipe", "getAll", "commit"}
       /\ call = "get" => mode = "replace"
       /\ call = "wipe" => wiped
       /\ inLoop => k \in 1..Chunks(Len(data.memories))
       /\ call = "getAll" => mode = "merge"
       /\ \E d0 \in {IF wiped /\ inLoop THEN batchCommit(docs, deleteBatch, now, FALSE)
                     ELSE docs} :
            LET before == IF inLoop THEN Take(data.memories, (k - 1) * BULK_LIMIT) ELSE <<>>
                upto == IF inLoop THEN Take(data.memories, k * BULK_LIMIT) ELSE <<>>
                r == importChunks(d0, before, mode, <<>>, <<>>, 0, e)
            IN /\ call = "commit" =>
                     importChunks(d0, upto, mode, <<>>, <<>>, 0, e).ids # <<>>
               /\ docs' = r.docs
               /\ used' = used \cup Range(r.ids)
               /\ IF before # <<>>
                  THEN invalidateCache
                  ELSE UNCHANGED <<cache, cacheTimestamp>>
               /\ ret' = Threw("importAll", <<data, mode>>, BackendError(code))
               /\ UNCHANGED <<now, ticks, hasEmbeddings, rt, gem, refresh>>

----------------------------------------------------------------------------
(* createEmbeddingService (embeddings.ts): the provider chosen for a        *)
(* configuration.  A credential or an override is None (undefined) or       *)
(* Some(string).                                                           *)

\* JavaScript truthiness of an optional string: defined and not empty
truthy(o) == IsSome(o) /\ Get(o) # <<>>

NameGemini == <<"g", "e", "m", "i", "n", "i">>
NameOpenai == <<"o", "p", "e", "n", "a", "i">>
NameOpenaiCompatible == NameOpenai \o <<"-", "c", "o", "m", "p", "a", "t", "i", "b", "l", "e">>
NameCohere == <<"c", "o", "h", "e", "r", "e">>

\* the provider picked from the credentials alone
autoDetect(config) ==
    IF truthy(config.geminiApiKey) THEN Some("Gemini")
    ELSE IF truthy(config.openaiApiKey) THEN Some("OpenAI")
    ELSE IF truthy(config.cohereApiKey) THEN Some("Cohere")
    ELSE None

selectProvider(config) ==
    LET explicit == IF IsSome(config.embeddingProvider)
                    THEN Some(toLowerCase(Get(config.embeddingProvider)))
                    ELSE None
    IN IF explicit = Some(NameGemini) /\ truthy(config.geminiApiKey)
       THEN Some("Gemini")
       ELSE IF (explicit = Some(NameOpenai) \/ explicit = Some(NameOpenaiCompatible))
                /\ truthy(config.openaiApiKey)
       THEN Some("OpenAI")
       ELSE IF explicit = Some(NameCohere) /\ truthy(config.cohereApiKey)
       THEN Some("Cohere")
       ELSE autoDetect(config)

\* a factory that never looks at the override
createEmbeddingServiceAutoOnly(config) ==
    /\ ret' = Returned("createEmbeddingService", config, autoDetect(config), 0)
    /\ UNCHANGED <<docs, used, cache, cacheTimestamp, now, ticks, hasEmbeddings, rt, gem, refresh>>

createEmbeddingService(config) ==
    /\ ret' = Returned("createEmbeddingService", config, selectProvider(config), 0)
    /\ UNCHANGED <<docs, used, cache, cacheTimestamp, now, ticks, hasEmbeddings, rt, gem, refresh>>

----------------------------------------------------------------------------
(* GeminiProvider.embedBatch (embeddings.ts): Promise.all over             *)
(* texts.map(embed).  map calls embed for every text before it returns,    *)
(* and each embed issues its embedContent request before its first await,  *)
(* so the requests of all the texts are issued in one step.  A request     *)
(* then resolves with values, resolves without values, or rejects.         *)

GemIdle == [pc |-> "idle", texts |-> <<>>, inFlight |-> {}, results |-> <<>>]

embedBatchCall(texts) ==
    /\ gem.pc \in {"idle", "returned", "threw"}
    /\ gem.inFlight = {}
    /\ gem' = [pc |-> IF texts = <<>> THEN "returned" ELSE "waiting",
               texts |-> texts,
               inFlight |-> 1..Len(texts),
               results |-> [i \in 1..Len(texts) |-> "pending"]]
    /\ UNCHANGED <<docs, used, cache, cacheTimestamp, now, ticks, hasEmbeddings, ret, rt, refresh>>

\* the request of texts[i] resolves; embed returns the values, or [] when
\* the response holds none
embedContentResolve(i, values) ==
    /\ i \in gem.inFlight
    /\ gem' = [gem EXCEPT
                  !.inFlight = @ \ {i},
                  !.results[i] = IF values = "empty" THEN "empty" ELSE "vector",
                  !.pc = IF gem.pc = "waiting" /\ gem.inFlight = {i}
                         THEN "returned" ELSE @]
    /\ UNCHANGED <<docs, used, cache, cacheTimestamp, now, ticks, hasEmbeddings, ret, rt, refresh>>

\* the request of texts[i] rejects; Promise.all rejects with the first
\* rejection while the other requests stay in flight
embedContentReject(i) ==
    /\ i \in gem.inFlight
    /\ gem' = [gem EXCEPT
                  !.inFlight = @ \ {i},
                  !.results[i] = "throw",
                  !.pc = IF gem.pc = "waiting" THEN "threw" ELSE @]
    /\ UNCHANGED <<docs, used, cache, cacheTimestamp, now, ticks, hasEmbeddings, ret, rt, refresh>>

----------------------------------------------------------------------------
(* A getAll interleaved with other calls on the same store.  On a cache    *)
(* miss getCachedMemories awaits collection.get(): the call is suspended   *)
(* from the request until the response is delivered, the backend reads the *)
(* collection at some moment in between, and other operations of the store *)
(* run meanwhile.                                                          *)

RefreshIdle == [pc |-> "idle", options |-> <<>>, snapshot |-> <<>>]

\* getAll finds no fresh cache and issues collection.get()
getAllRequest(options) ==
    /\ refresh.pc = "idle"
    /\ ~cacheFresh
    /\ refresh' = [pc |-> "requested", options |-> options, snapshot |-> <<>>]
    /\ UNCHANGED <<docs, used, cache, cacheTimestamp, now, ticks, hasEmbeddings, ret, rt, gem>>

\* the backend reads the collection for the pending request
backendReads ==
    /\ refresh.pc = "requested"
    /\ refresh' = [refresh EXCEPT !.pc = "answered", !.snapshot = Snapshot(docs)]
    /\ UNCHANGED <<docs, used, cache, cacheTimestamp, now, ticks, hasEmbeddings, ret, rt, gem>>

\* the response is delivered: getCachedMemories installs it as the cache and
\* getAll returns its page of it
getAllResume ==
    /\ refresh.pc = "answered"
    /\ LET options == refresh.options
           limit == Min2(Max2(OrElse(options.limit, 50), 1), 200)
           offset == Max2(OrElse(options.offset, 0), 0)
           allDocs == refresh.snapshot
           all == sortPinnedFirst(sortNewestFirst(notExpired(allDocs)))
       IN /\ cache' = [present |-> TRUE, mems |-> allDocs]
          /\ cacheTimestamp' = now
          /\ ret' = ReturnedRead("getAll", options, slice(all, offset, offset + limit), TRUE)
    /\ refresh' = RefreshIdle
    /\ UNCHANGED <<docs, used, now, ticks, hasEmbeddings, rt, gem>>

----------------------------------------------------------------------------
(* Specifications *)

InitStore ==
    /\ docs = [i \in {} |-> 0]
    /\ used = {}
    /\ cache = NoCache
    /\ cacheTimestamp = 0
    /\ now = StartTime
    /\ ticks = 0
    /\ hasEmbeddings = FALSE
    /\ ret = NoOutcome
    /\ rt = RtIdle
    /\ gem = GemIdle
    /\ refresh = RefreshIdle

Init == InitStore

\* inputs of the retry specification
RetryCodes == {None, Some(UNAVAILABLE), Some(DEADLINE_EXCEEDED), Some(5)}
RetryValues == {"v1", "v2", "v3"}

NextRetry ==
    \/ withRetryStart
    \/ \E v \in RetryValues : withRetryResolve(v)
    \/ \E c \in RetryCodes : withRetryReject(c)
    \/ withRetryWake

SpecRetry == Init /\ [][NextRetry]_vars

----------------------------------------------------------------------------
(* Input pools *)

FactA == <<"a", "b">>
QueryA == <<"A">>
TagA == <<"a">>

PlainAdd == [fact |-> FactA, tags |-> None, pinned |-> None, ttl_hours |-> None]
NoOptions == [limit |-> None, offset |-> None]

ImportMemory(id, tags, rel, exp) ==
    [id |-> id, fact |-> FactA, tags |-> tags, pinned |-> FALSE, relatedTo |-> rel,
     expiresAt |-> exp, createdAt |-> NullTime]

----------------------------------------------------------------------------
(* SpecGraph: the relationship operations over records that are added,     *)
(* deleted and imported.                                                   *)

GraphImports ==
    {<<>>} \cup
    UNION {{<<ImportMemory(id, <<>>, rel, NullTime)>> :
                rel \in {<<>>} \cup {<<j>> : j \in Ids \ {id}}} : id \in Ids}

\* every pair of distinct ids, and one self-pair
LinkPairs == {p \in Ids \X Ids : p[1] # p[2] \/ p[1] = 1}

NextGraph ==
    \/ add(PlainAdd, "vector")
    \/ \E id \in Ids : delete(id)
    \/ \E mems \in GraphImports, mode \in {"merge", "replace"} :
          importAll([memories |-> mems], mode, "vector")
    \/ \E p \in LinkPairs : link(p[1], p[2])
    \/ \E p \in LinkPairs : \E strict \in BackendKinds(p[1], p[2]) :
          unlink(p[1], p[2], strict)
    \/ \E id \in Ids : getRelated(id)

SpecGraph == Init /\ [][NextGraph]_vars

----------------------------------------------------------------------------
(* Spec: every mutating operation of the store and the cached reads, at a  *)
(* fixed instant.                                                          *)

OpsImports ==
    GraphImports \cup {<<ImportMemory(id, <<>>, <<>>, StartTime - 1)>> : id \in Ids}

Next ==
    \/ add(PlainAdd, "vector")
    \/ \E id \in Ids : update(id, [fact |-> None, tags |-> None, pinned |-> Some(TRUE)], "vector")
    \/ \E id \in Ids : delete(id)
    \/ \E id \in Ids : togglePin(id)
    \/ addBulk(<<PlainAdd>>, "vector")
    \/ \E id \in Ids : deleteBulk(<<id>>)
    \/ \E mems \in OpsImports, mode \in {"merge", "replace"} :
          importAll([memories |-> mems], mode, "vector")
    \/ \E p \in LinkPairs : link(p[1], p[2])
    \/ \E p \in LinkPairs : \E strict \in BackendKinds(p[1], p[2]) :
          unlink(p[1], p[2], strict)
    \/ cleanupExpired
    \/ getAll(NoOptions)
    \/ search(QueryA)
    \/ smartSearch(QueryA)
    \/ exportAll

Spec == Init /\ [][Next]_vars

----------------------------------------------------------------------------
(* SpecCache: the cached reads under a clock that advances by half the     *)
(* TTL, over records that are added, pinned and deleted.                   *)

HalfTtl == CACHE_TTL_MS \div 2

NextCache ==
    \/ add(PlainAdd, "vector")
    \/ \E id \in Ids : delete(id)
    \/ togglePin(1)
    \/ getAll(NoOptions)
    \/ search(QueryA)
    \/ smartSearch(QueryA)
    \/ exportAll
    \/ Tick(HalfTtl)

SpecCache == Init /\ [][NextCache]_vars

----------------------------------------------------------------------------
(* SpecExpiry: every read over imported records that expire one           *)
(* millisecond after the start, under a clock that advances by 1 ms.       *)

OtherId(id) == IF id = NumIds THEN 1 ELSE id + 1

ExpiryImports ==
    {<<ImportMemory(id, <<TagA>>, <<OtherId(id)>>, exp)>> :
        id \in Ids, exp \in {NullTime, StartTime + 1}}

NextExpiry ==
    \/ \E mems \in ExpiryImports : importAll([memories |-> mems], "merge", "vector")
    \/ cleanupExpired
    \/ \E id \in Ids : getById(id)
    \/ getAll(NoOptions)
    \/ search(QueryA)
    \/ smartSearch(QueryA)
    \/ searchByTags(<<QueryA>>)
    \/ \E id \in Ids : getRelated(id)
    \/ exportAll
    \/ Tick(1)

SpecExpiry == Init /\ [][NextExpiry]_vars

----------------------------------------------------------------------------
(* SpecTags: the write paths with tag lists of mixed case *)

TagUpper == <<"W", "B">>
TagMixed == <<"w", "B">>
TagLower == <<"w", "b">>

TagLists == {<<TagLower>>, <<TagUpper>>, <<TagMixed, TagUpper>>}

TagInputs ==
    {[fact |-> FactA, tags |-> t, pinned |-> None, ttl_hours |-> None] :
        t \in {None} \cup {Some(l) : l \in TagLists}}

TagUpdates ==
    {[fact |-> None, tags |-> t, pinned |-> None] : t \in {None} \cup {Some(l) : l \in TagLists}}

TagImports ==
    {<<ImportMemory(id, l, <<>>, NullTime)>> : id \in Ids, l \in TagLists}

NextTags ==
    \/ \E input \in TagInputs : add(input, "vector")
    \/ \E id \in Ids, updates \in TagUpdates : update(id, updates, "vector")
    \/ \E input \in TagInputs : addBulk(<<input>>, "vector")
    \/ \E mems \in TagImports, mode \in {"merge", "replace"} :
          importAll([memories |-> mems], mode, "vector")

SpecTags == Init /\ [][NextTags]_vars

----------------------------------------------------------------------------
(* SpecBlankTags: the write paths with tag lists that hold an empty or a   *)
(* whitespace-only tag.                                                    *)

TagEmpty == <<>>
TagSpace == <<" ">>

BlankTagLists == {<<TagLower>>, <<TagEmpty, TagLower, TagEmpty>>, <<TagSpace>>}

BlankTagInputs ==
    {[fact |-> FactA, tags |-> t, pinned |-> None, ttl_hours |-> None] :
        t \in {None} \cup {Some(l) : l \in BlankTagLists}}

BlankTagUpdates ==
    {[fact |-> None, tags |-> Some(l), pinned |-> None] : l \in BlankTagLists}

BlankTagImports ==
    {<<ImportMemory(id, l, <<>>, NullTime)>> : id \in Ids, l \in BlankTagLists}

NextBlankTags ==
    \/ \E input \in BlankTagInputs : add(input, "vector")
    \/ \E id \in Ids, updates \in BlankTagUpdates : update(id, updates, "vector")
    \/ \E input \in BlankTagInputs : addBulk(<<input>>, "vector")
    \/ \E mems \in BlankTagImports : importAll([memories |-> mems], "merge", "vector")

SpecBlankTags == Init /\ [][NextBlankTags]_vars

----------------------------------------------------------------------------
(* SpecPaging: getAll with every kind of limit and offset over stores of   *)
(* 0, 10, 60 and 210 records, some pinned, some expired, some created at   *)
(* the same instant.                                                       *)

PageSizes == {0, 10, 60, 210}

PageDoc(id) ==
    MkData(FactA, <<>>, id % 4 = 0, <<>>,
           IF id % 50 = 3 THEN StartTime - 1 ELSE NullTime,
           StartTime - 100 + (id % 13), StartTime - 100 + (id % 13), FALSE)

InitPaging ==
    /\ \E n \in PageSizes :
          /\ docs = [id \in 1..n |-> PageDoc(id)]
          /\ used = 1..n
    /\ cache = NoCache
    /\ cacheTimestamp = 0
    /\ now = StartTime
    /\ ticks = 0
    /\ hasEmbeddings = FALSE
    /\ ret = NoOutcome
    /\ rt = RtIdle
    /\ gem = GemIdle
    /\ refresh = RefreshIdle

PageOptions ==
    {[limit |-> l, offset |-> o] :
        l \in {None, Some(0), Some(999)},
        o \in {None, Some(0 - 1), Some(5), Some(203)}}

NextPaging ==
    \/ add(PlainAdd, "vector")
    \/ delete(1)
    \/ \E options \in PageOptions : getAll(options)

SpecPaging == InitPaging /\ [][NextPaging]_vars

----------------------------------------------------------------------------
(* SpecBulk: addBulk and deleteBulk with lists shorter and longer than the  *)
(* limit of 20.                                                            *)

\* the i-th input of a bulk add: a fact of i characters
BulkInput(i) ==
    [fact |-> [j \in 1..i |-> "a"], tags |-> None, pinned |-> None, ttl_hours |-> None]

BulkSizes == {0, 1, 2, 20, 30}

BulkInputs == {[i \in 1..n |-> BulkInput(i)] : n \in BulkSizes}

\* 25 ids: id 1, nineteen ids of the second range, and past the 20th place
\* the remaining id of the second range and id 2
LongDelete ==
    <<1>> \o [i \in 1..19 |-> NumIds + 1 + i] \o <<NumIds + 1, 2, 2, 2, 2>>

DeleteLists == {<<>>, <<1>>, <<2, 1>>, LongDelete}

NextBulk ==
    \/ \E inputs \in BulkInputs : addBulk(inputs, "vector")
    \/ \E memoryIds \in DeleteLists : deleteBulk(memoryIds)

SpecBulk == Init /\ [][NextBulk]_vars

----------------------------------------------------------------------------
(* SpecImport: importAll in both modes with lists of 0, 1, 2 and 22         *)
(* memories, over records that were added or imported, and the cached      *)
(* reads.                                                                  *)

ImportTagged(id, tag) == ImportMemory(id, <<tag>>, <<>>, NullTime)

\* 22 memories, two chunks: twenty ids of a second range, then id 1 and the
\* first id of the list once more
LongImport ==
    [i \in 1..20 |-> ImportTagged(NumIds + i, TagA)] \o
    <<ImportTagged(1, TagA), ImportTagged(NumIds + 1, TagLower)>>

ImportLists ==
    {<<>>, <<ImportTagged(1, TagA), ImportTagged(2, TagA)>>, LongImport}
    \cup {<<ImportTagged(id, tag)>> : id \in Ids, tag \in {TagA, TagLower}}

NextImport ==
    \/ add(PlainAdd, "vector")
    \/ \E mems \in ImportLists, mode \in {"merge", "replace"} :
          importAll([memories |-> mems], mode, "vector")
    \/ getAll(NoOptions)
    \/ search(QueryA)
    \/ exportAll

SpecImport == Init /\ [][NextImport]_vars

----------------------------------------------------------------------------
(* SpecSearch: smartSearch and search with one-word, two-word, empty and    *)
(* blank queries over records whose facts and tags hold the query as a     *)
(* substring, as words in another order, as parts of words, or not at all. *)

FactWordsSwapped == <<"b", " ", "a">>
FactWithSpace == <<"a", " ", "b">>
TagWithSpace == <<"a", " ", "b">>
QueryTwoWords == <<"A", " ", "b">>
QueryEmpty == <<>>
QueryBlank == <<" ", " ">>

SearchInputs ==
    {[fact |-> f, tags |-> t, pinned |-> None, ttl_hours |-> None] :
        f \in {FactA, FactWordsSwapped, FactWithSpace},
        t \in {None, Some(<<TagWithSpace>>), Some(<<TagA>>)}}

SearchQueries == {QueryA, QueryTwoWords, QueryEmpty, QueryBlank}

NextSearch ==
    \/ \E input \in SearchInputs : add(input, "vector")
    \/ \E query \in SearchQueries : smartSearch(query)
    \/ \E query \in SearchQueries : search(query)

SpecSearch == Init /\ [][NextSearch]_vars

----------------------------------------------------------------------------
(* SpecNotFound: update and togglePin on ids that are stored and on ids     *)
(* that are not, with and without a cached snapshot.                       *)

PinUpdate == [fact |-> None, tags |-> None, pinned |-> Some(TRUE)]

NextNotFound ==
    \/ add(PlainAdd, "vector")
    \/ \E id \in Ids : delete(id)
    \/ \E id \in Ids : update(id, PinUpdate, "vector")
    \/ \E id \in Ids : togglePin(id)
    \/ getAll(NoOptions)

SpecNotFound == Init /\ [][NextNotFound]_vars

----------------------------------------------------------------------------
(* SpecProvider: createEmbeddingService over every combination of absent,  *)
(* empty and set credentials and of overrides in several cases.            *)

KeyValues == {None, Some(<<>>), Some(<<"k">>)}

Overrides ==
    {None,
     Some(<<"G", "e", "m", "i", "n", "i">>),
     Some(<<"O", "P", "E", "N", "A", "I">>),
     Some(NameOpenaiCompatible),
     Some(<<"c", "o", "h", "e", "r", "e">>),
     Some(<<"o", "t", "h", "e", "r">>)}

EmbeddingConfigs ==
    {[geminiApiKey |-> g, openaiApiKey |-> o, cohereApiKey |-> c, embeddingProvider |-> x] :
        g \in KeyValues, o \in KeyValues, c \in KeyValues, x \in Overrides}

NextProvider == \E config \in EmbeddingConfigs : createEmbeddingService(config)

SpecProvider == Init /\ [][NextProvider]_vars

----------------------------------------------------------------------------
(* SpecEmbed: the write paths of a store constructed with an embedding     *)
(* service whose calls either return a vector or throw.                    *)

InitEmbed ==
    /\ docs = [i \in {} |-> 0]
    /\ used = {}
    /\ cache = NoCache
    /\ cacheTimestamp = 0
    /\ now = StartTime
    /\ ticks = 0
    /\ hasEmbeddings = TRUE
    /\ ret = NoOutcome
    /\ rt = RtIdle
    /\ gem = GemIdle
    /\ refresh = RefreshIdle

EmbedOutcomes == {"vector", "throw"}

FactUpdate == [fact |-> Some(FactWithSpace), tags |-> None, pinned |-> None]

EmbedBulks == {<<PlainAdd>>, <<PlainAdd, PlainAdd>>}

EmbedImports == {<<ImportMemory(id, <<>>, <<>>, NullTime)>> : id \in Ids}

NextEmbed ==
    \/ \E e \in EmbedOutcomes : add(PlainAdd, e)
    \/ \E id \in Ids, e \in EmbedOutcomes : update(id, FactUpdate, e)
    \/ \E inputs \in EmbedBulks, e \in EmbedOutcomes : addBulk(inputs, e)
    \/ \E mems \in EmbedImports, mode \in {"merge", "replace"}, e \in EmbedOutcomes :
          importAll([memories |-> mems], mode, e)
    \/ \E id \in Ids : delete(id)

SpecEmbed == InitEmbed /\ [][NextEmbed]_vars

----------------------------------------------------------------------------
(* SpecRoundTrip: exportAll followed at once by a replace import of what   *)
(* it returned, over records that are added, pinned, linked and deleted.   *)

PinnedAdd == [fact |-> FactWithSpace, tags |-> Some(<<TagA>>), pinned |-> Some(TRUE),
              ttl_hours |-> Some(1)]

\* importAll(exportAll(), "replace"): the import of the export just returned
importExported ==
    /\ ret.op = "exportAll"
    /\ importAll([memories |-> ret.value.memories], "replace", "vector")

NextRoundTrip ==
    \/ \E input \in {PlainAdd, PinnedAdd} : add(input, "vector")
    \/ \E id \in Ids : delete(id)
    \/ \E id \in Ids : togglePin(id)
    \/ link(1, 2)
    \/ getAll(NoOptions)
    \/ exportAll
    \/ importExported

SpecRoundTrip == Init /\ [][NextRoundTrip]_vars

----------------------------------------------------------------------------
(* SpecFault: operations one of whose backend calls rejects once, over     *)
(* records that are added.                                                 *)

FaultCodes == {UNAVAILABLE, DEADLINE_EXCEEDED, 5}

FaultImports == {<<ImportTagged(id, TagA)>> : id \in Ids}

ImportCalls == {"get", "wipe", "getAll", "commit"}

NextFault ==
    \/ add(PlainAdd, "vector")
    \/ \E id \in Ids, call \in {"get", "delete"}, code \in FaultCodes :
          deleteFailingOnce(id, call, code)
    \/ \E code \in FaultCodes : addBulkFailingOnce(<<PlainAdd>>, code)
    \/ \E id \in Ids, call \in {"get", "commit"}, code \in FaultCodes :
          deleteBulkFailingOnce(<<id>>, call, code)
    \/ \E mems \in FaultImports, mode \in {"merge", "replace"}, call \in ImportCalls,
          code \in FaultCodes :
          importAllFailingOnce([memories |-> mems], mode, "vector", call, 1, code)
    \/ getAll(NoOptions)

SpecFault == Init /\ [][NextFault]_vars

----------------------------------------------------------------------------
(* SpecChunks: imports of one and of two chunks, whole or with one         *)
(* rejected backend call, over records that are added.                     *)

ChunkImports == {<<ImportTagged(1, TagLower)>>, LongImport}

NextChunks ==
    \/ add(PlainAdd, "vector")
    \/ \E id \in Ids : delete(id)
    \/ \E mems \in ChunkImports, mode \in {"merge", "replace"} :
          importAll([memories |-> mems], mode, "vector")
    \/ \E mems \in ChunkImports, mode \in {"merge", "replace"}, call \in ImportCalls,
          k \in 1..2 :
          importAllFailingOnce([memories |-> mems], mode, "vector", call, k, UNAVAILABLE)

SpecChunks == Init /\ [][NextChunks]_vars

----------------------------------------------------------------------------
(* SpecGemini: batches of up to MaxBatch texts embedded by GeminiProvider  *)

MaxBatch == 4

GeminiTexts == {[i \in 1..n |-> FactA] : n \in 0..MaxBatch}

NextGemini ==
    \/ \E texts \in GeminiTexts : embedBatchCall(texts)
    \/ \E i \in 1..MaxBatch, values \in {"values", "empty"} : embedContentResolve(i, values)
    \/ \E i \in 1..MaxBatch : embedContentReject(i)

SpecGemini == Init /\ [][NextGemini]_vars

----------------------------------------------------------------------------
(* SpecPinFault: togglePin with every backend call answered and with one   *)
(* of its three backend calls rejected once.                               *)

NextPinFault ==
    \/ add(PlainAdd, "vector")
    \/ \E id \in Ids : togglePin(id)
    \/ \E id \in Ids, call \in {"get", "update", "refetch"}, code \in FaultCodes :
          togglePinFailingOnce(id, call, code)

SpecPinFault == Init /\ [][NextPinFault]_vars

----------------------------------------------------------------------------
(* SpecInterleave: a getAll suspended at its backend fetch while records   *)
(* are added and deleted and other reads run, at a fixed instant.          *)

NextInterleave ==
    \/ add(PlainAdd, "vector")
    \/ \E id \in Ids : delete(id)
    \/ getAll(NoOptions)
    \/ search(QueryA)
    \/ getAllRequest(NoOptions)
    \/ backendReads
    \/ getAllResume

SpecInterleave == Init /\ [][NextInterleave]_vars

----------------------------------------------------------------------------
(* SpecExpiredOps: the operations addressed by id over imported records    *)
(* that expire one millisecond after the start, under a clock that         *)
(* advances by 1 ms.                                                       *)

\* the two records the operations address
PairIds == {1, 2}

ExpiredOpsImports ==
    {<<ImportMemory(id, <<TagA>>, <<3 - id>>, exp)>> :
        id \in PairIds, exp \in {NullTime, StartTime + 1}}

NextExpiredOps ==
    \/ \E mems \in ExpiredOpsImports : importAll([memories |-> mems], "merge", "vector")
    \/ \E id \in PairIds : update(id, PinUpdate, "vector")
    \/ \E id \in PairIds : togglePin(id)
    \/ \E id \in PairIds : delete(id)
    \/ link(1, 2)
    \/ \E id \in PairIds : getRelated(id)
    \/ \E id \in PairIds : getById(id)
    \/ Tick(1)

SpecExpiredOps == Init /\ [][NextExpiredOps]_vars

----------------------------------------------------------------------------
(* Properties *)

InRelated(d, a, b) == exists(d, a) /\ b \in Range(d[a].relatedTo)

\* C1: after link(a,b) returns, b is in relatedTo(a) and a is in relatedTo(b),
\* and no step of link adds one side of the link without the other.
C1_LinkBothSides ==
    /\ [](ret.op = "link" /\ ~ret.threw =>
            /\ InRelated(docs, ret.args[1], ret.args[2])
            /\ InRelated(docs, ret.args[2], ret.args[1]))
    /\ [][ret'.op = "link" =>
            \A a, b \in Ids :
                (InRelated(docs', a, b) /\ ~InRelated(docs, a, b)) => InRelated(docs', b, a)]_vars

C1_Witness ==
    /\ ret.op = "link" /\ ~ret.threw
    /\ ret.args[1] # ret.args[2]
    /\ Len(docs[ret.args[1]].relatedTo) = 1

\* C2: relatedTo is symmetric over the stored memories in every reachable state.
C2_RelatedToSymmetric ==
    \A a, b \in DOMAIN docs : InRelated(docs, a, b) <=> InRelated(docs, b, a)

MutatingOps ==
    {"add", "update", "delete", "togglePin", "addBulk", "deleteBulk", "link", "unlink",
     "importAll", "cleanupExpired"}

\* C4: when a mutating operation has returned, the cache holds no snapshot.
C4_MutationInvalidatesCache ==
    (ret.op \in MutatingOps /\ ~ret.threw) => ~cache.present

RetryableFailure(o) ==
    ~o.ok /\ IsSome(o.value.code) /\ Get(o.value.code) \in {14, 4}

\* C6: the action is invoked at most 4 times, every invocation but the last
\* failed with code 14 or 4, and a failure with another code or with no code
\* is the last invocation and is followed by no delay.
C6_BoundedRetryOnRetryableOnly ==
    /\ rt.calls <= 4
    /\ rt.calls = Len(rt.outcomes)
    /\ \A k \in 1..(Len(rt.outcomes) - 1) : RetryableFailure(rt.outcomes[k])
    /\ \A k \in 1..Len(rt.outcomes) :
          (~rt.outcomes[k].ok /\ ~RetryableFailure(rt.outcomes[k])) =>
              /\ k = Len(rt.outcomes)
              /\ rt.pc = "threw"
              /\ rt.delay = 0
              /\ Len(rt.delays) = k - 1

C6_Witness ==
    /\ rt.pc = "threw"
    /\ rt.calls = 4
    /\ RetryableFailure(rt.outcomes[4])

RECURSIVE SumSeq(_)
SumSeq(s) == IF s = <<>> THEN 0 ELSE Head(s) + SumSeq(Tail(s))

ExpectedBackoff(k) == CASE k = 1 -> 500 [] k = 2 -> 1000 [] k = 3 -> 2000 [] OTHER -> 0 - 1

\* C7: the k-th backoff is 500, 1000, 2000 ms for k = 1, 2, 3, and an action
\* that fails twice with a retryable code and then succeeds returns that value
\* after 1500 ms of backoff in total.
C7_BackoffSchedule ==
    /\ Len(rt.delays) <= 3
    /\ \A k \in 1..Len(rt.delays) : rt.delays[k] = ExpectedBackoff(k)
    /\ rt.pc = "sleeping" => rt.delay = ExpectedBackoff(Len(rt.delays) + 1)
    /\ (rt.pc = "returned" /\ rt.calls = 3) =>
          /\ rt.result = Some(rt.outcomes[3].value)
          /\ SumSeq(rt.delays) = 1500

C7_Witness ==
    /\ rt.pc = "returned"
    /\ rt.calls = 3
    /\ rt.delays = <<500, 1000>>

\* C8: the executor returns only the value of an attempt that succeeded, and
\* what it throws is the error raised by the last attempt; it ends in no other way.
C8_NoSwallowedError ==
    /\ rt.pc = "returned" =>
          /\ rt.outcomes[Len(rt.outcomes)].ok
          /\ rt.result = Some(rt.outcomes[Len(rt.outcomes)].value)
    /\ rt.pc = "threw" =>
          /\ ~rt.outcomes[Len(rt.outcomes)].ok
          /\ rt.result = Some(rt.outcomes[Len(rt.outcomes)].value)
          /\ rt.result[1].n = rt.calls
          /\ (~RetryableFailure(rt.outcomes[Len(rt.outcomes)]) \/ rt.calls = 4)
    /\ (rt.outcomes # <<>> /\ ~rt.outcomes[Len(rt.outcomes)].ok) => rt.pc \in {"sleeping", "calling", "threw"}
    /\ (rt.outcomes # <<>> /\ rt.outcomes[Len(rt.outcomes)].ok) => rt.pc = "returned"

C8_Witness ==
    /\ rt.pc = "threw"
    /\ rt.calls >= 2
    /\ ~RetryableFailure(rt.outcomes[rt.calls])

FilteredReads == {"getById", "getAll", "search", "smartSearch", "searchByTags", "getRelated"}

\* the memories an operation returned
ReturnedMemories(r) ==
    CASE r.op = "getById" -> Range(r.value)
      [] r.op = "smartSearch" -> {r.value[i].memory : i \in 1..Len(r.value)}
      [] r.op = "exportAll" -> Range(r.value.memories)
      [] OTHER -> Range(r.value)

InThePast(expiresAt) == expiresAt # (0 - 1) /\ expiresAt < now

StoredExpired == {id \in DOMAIN docs : InThePast(docs[id].expiresAt)}

\* C3: no memory whose expiresAt is in the past is in the result of getById,
\* getAll, search, smartSearch, searchByTags or getRelated, whether the read
\* used the cache or the backend; reads and the clock remove no record.
C3_ExpiredNeverReturned ==
    /\ []((ret.op \in FilteredReads /\ ~ret.threw) =>
            \A m \in ReturnedMemories(ret) :
                /\ ~InThePast(m.expiresAt)
                /\ m.id \notin StoredExpired)
    /\ [][(ret'.op \in FilteredReads \/ now' # now) => docs' = docs]_vars

\* an expired record is stored and in the fresh snapshot, and getAll, served
\* from that snapshot, returned another record without it
C3_Witness ==
    /\ ret.op = "getAll" /\ ~ret.fetched
    /\ StoredExpired # {}
    /\ \E i \in 1..Len(cache.mems) : cache.mems[i].id \in StoredExpired
    /\ ret.value # <<>>

CachedReads == {"getAll", "search", "smartSearch", "exportAll"}

SameMembers(s, t) == Len(s) = Len(t) /\ Range(s) = Range(t)

\* C5: a cached read issues no backend read exactly when a snapshot exists
\* whose age is under 300000 ms; otherwise it replaces snapshot and timestamp
\* by the fetched collection and the current time; after any cached read the
\* snapshot it used is younger than 300000 ms.
C5_CacheTtl ==
    /\ [](ret.op \in CachedReads => (cache.present /\ now - cacheTimestamp < 300000))
    /\ [][ret'.op \in CachedReads =>
            /\ ret'.fetched <=> ~(cache.present /\ now - cacheTimestamp < 300000)
            /\ ret'.fetched =>
                  /\ cacheTimestamp' = now
                  /\ SameMembers(cache'.mems, Snapshot(docs))
            /\ ~ret'.fetched =>
                  /\ cacheTimestamp' = cacheTimestamp
                  /\ SameMembers(cache'.mems, cache.mems)]_vars

\* a read served from a snapshot that is half a TTL old and differs from the backend
C5_Witness ==
    /\ ret.op \in CachedReads /\ ~ret.fetched
    /\ now - cacheTimestamp = 150000
    /\ ~SameMembers(cache.mems, Snapshot(docs))

HasNoUpperCase(s) == \A i \in 1..Len(s) : s[i] \notin {"A", "B", "W"}

EqualIgnoringCase(s, t) ==
    Len(s) = Len(t) /\ \A i \in 1..Len(s) : ToLowerChar(s[i]) = ToLowerChar(t[i])

\* stored is supplied with every tag lowercased, same length and order
LowercasedCopy(stored, supplied) ==
    /\ Len(stored) = Len(supplied)
    /\ \A i \in 1..Len(stored) :
          HasNoUpperCase(stored[i]) /\ EqualIgnoringCase(stored[i], supplied[i])

\* C9: add and update store the supplied tags lowercased, in the supplied
\* order and with duplicates kept; update without tags leaves the tags as they were.
C9_TagsLowercasedInOrder ==
    /\ [](ret.op = "add" =>
            LowercasedCopy(docs[ret.value].tags, OrElse(ret.args.tags, <<>>)))
    /\ []((ret.op = "update" /\ ~ret.threw /\ IsSome(ret.args[2].tags)) =>
            /\ LowercasedCopy(docs[ret.args[1]].tags, Get(ret.args[2].tags))
            /\ ret.value.tags = docs[ret.args[1]].tags)
    /\ [][(ret'.op = "update" /\ ~ret'.threw /\ ~IsSome(ret'.args[2].tags)) =>
            docs'[ret'.args[1]].tags = docs[ret'.args[1]].tags]_vars

\* add stored two tags that differ only by case as two equal lowercase tags
C9_Witness ==
    /\ ret.op = "add"
    /\ ret.args.tags = Some(<<TagMixed, TagUpper>>)
    /\ docs[ret.value].tags = <<TagLower, TagLower>>

\* C10: every tag of every record written by addBulk or importAll is lowercase.
C10_BulkTagsLowercase ==
    (ret.op \in {"addBulk", "importAll"}) =>
        \A i \in 1..Len(ret.value.ids) :
            LET id == ret.value.ids[i]
            IN \A k \in 1..Len(docs[id].tags) : HasNoUpperCase(docs[id].tags[k])

\* a tag that is empty or made of whitespace only
IsBlank(tag) == \A i \in 1..Len(tag) : tag[i] = " "

\* C11: every stored tag is non-empty and not whitespace-only in every
\* reachable state, whichever of add, update, addBulk and importAll wrote it.
C11_NoBlankTagStored ==
    \A id \in DOMAIN docs : \A k \in 1..Len(docs[id].tags) : ~IsBlank(docs[id].tags[k])

\* the limit and offset getAll is specified to use for the given options
ClampedLimit(options) ==
    IF options.limit = <<>> THEN 50
    ELSE IF options.limit[1] < 1 THEN 1
    ELSE IF options.limit[1] > 200 THEN 200
    ELSE options.limit[1]

ClampedOffset(options) ==
    IF options.offset = <<>> THEN 0
    ELSE IF options.offset[1] < 0 THEN 0
    ELSE options.offset[1]

\* V: the stored memories that are not expired
NonExpiredCount ==
    Cardinality({id \in DOMAIN docs :
                    docs[id].expiresAt = (0 - 1) \/ docs[id].expiresAt >= now})

\* C12: getAll returns exactly min(L, max(0, V - O)) memories, V the number
\* of non-expired memories, L the limit clamped to [1, 200] (50 when
\* omitted), O the offset clamped to at least 0; never more than 200.
C12_GetAllCount ==
    ret.op = "getAll" =>
        LET L == ClampedLimit(ret.args)
            O == ClampedOffset(ret.args)
            V == NonExpiredCount
            rest == IF V - O > 0 THEN V - O ELSE 0
        IN /\ Len(ret.value) = (IF L < rest THEN L ELSE rest)
           /\ Len(ret.value) <= 200

\* more than 200 memories are listable, 999 were asked for, 200 came back
C12_Witness ==
    /\ ret.op = "getAll"
    /\ ret.args = [limit |-> Some(999), offset |-> None]
    /\ NonExpiredCount > 200
    /\ Len(ret.value) = 200

\* position of the memory with the given id in the snapshot getAll worked on
SnapshotIndex(id) == CHOOSE k \in 1..Len(cache.mems) : cache.mems[k].id = id

CreatedOrZero(m) == IF m.createdAt = (0 - 1) THEN 0 ELSE m.createdAt

\* a and b, adjacent in a listing, are in listing order
InListingOrder(a, b) ==
    /\ b.pinned => a.pinned
    /\ (a.pinned = b.pinned) => CreatedOrZero(a) >= CreatedOrZero(b)
    /\ (a.pinned = b.pinned /\ CreatedOrZero(a) = CreatedOrZero(b)) =>
          SnapshotIndex(a.id) < SnapshotIndex(b.id)

\* C13: in what getAll returns every pinned memory precedes every unpinned
\* one, each group is in descending createdAt order, and memories of a group
\* with equal createdAt keep their snapshot order (the three orders are
\* transitive, so they are stated on neighbours).
C13_PinnedFirstThenNewest ==
    ret.op = "getAll" =>
        \A i \in 1..(Len(ret.value) - 1) : InListingOrder(ret.value[i], ret.value[i + 1])

\* a full page of 200 with both groups, and with neighbours of one group
\* created at the same instant
C13_Witness ==
    /\ ret.op = "getAll"
    /\ Len(ret.value) = 200
    /\ ret.value[1].pinned /\ ~ret.value[200].pinned
    /\ \E i \in 1..199 :
          /\ ret.value[i].pinned = ret.value[i + 1].pinned
          /\ ret.value[i].createdAt = ret.value[i + 1].createdAt
    /\ \E i \in 1..199 :
          /\ ret.value[i].pinned = ret.value[i + 1].pinned
          /\ ret.value[i].createdAt > ret.value[i + 1].createdAt

\* C14: the getAll that directly follows a togglePin(id) that returned lists
\* id with the pinned value togglePin returned, and before every unpinned
\* memory when that value is true.
C14_NextGetAllShowsPin ==
    [][(ret.op = "togglePin" /\ ~ret.threw /\ ret'.op = "getAll") =>
          \A i \in 1..Len(ret'.value) :
              ret'.value[i].id = ret.args =>
                  /\ ret'.value[i].pinned = ret.value.pinned
                  /\ ret.value.pinned =>
                        \A j \in 1..(i - 1) : ret'.value[j].pinned]_vars

AtMost20(n) == IF n < 20 THEN n ELSE 20

C16_EmptyAddBulkNoWrite ==
    (ret.op = "addBulk" /\ ret.args = <<>>) =>
        /\ ret.value.succeeded = 0
        /\ ret.value.failed = 0
        /\ ret.commits = 0

\* number of places of the sequence s that satisfy exists-in-d = wanted
CountPlaces(s, d, wanted) == Cardinality({i \in 1..Len(s) : (s[i] \in DOMAIN d) = wanted})

\* C17: deleteBulk never throws; of the first 20 ids given, those stored are
\* deleted and counted in succeeded, the others are reported "not found" and
\* counted in failed; nothing else changes; succeeded + failed = min(n, 20);
\* a batch is committed only when some id was stored.
C17_DeleteBulkPartial ==
    [][ret'.op = "deleteBulk" =>
          LET given == ret'.args
              k == AtMost20(Len(given))
              first == SubSeq(given, 1, k)
              r == ret'.value
          IN /\ ~ret'.threw
             /\ r.succeeded = CountPlaces(first, docs, TRUE)
             /\ r.failed = CountPlaces(first, docs, FALSE)
             /\ r.succeeded + r.failed = k
             /\ Len(r.errors) = r.failed
             /\ \A i \in 1..Len(r.errors) :
                   /\ r.errors[i].msg = "not found"
                   /\ r.errors[i].id \in Range(first) \ DOMAIN docs
             /\ Range(first) \ DOMAIN docs = {r.errors[i].id : i \in 1..Len(r.errors)}
             /\ DOMAIN docs' = DOMAIN docs \ Range(first)
             /\ \A id \in DOMAIN docs' : docs'[id] = docs[id]
             /\ ret'.commits = (IF r.succeeded > 0 THEN 1 ELSE 0)]_vars

\* 25 ids were given: the first was absent, the next 19 were deleted, and the
\* stored id at the 21st place is still stored
C17_Witness ==
    /\ ret.op = "deleteBulk"
    /\ Len(ret.args) = 25
    /\ ret.value.succeeded = 19
    /\ ret.value.failed = 1
    /\ ret.args[21] \in DOMAIN docs

ImportedIds(mems) == {mems[i].id : i \in 1..Len(mems)}

\* C18: a merge import leaves every record stored before the call as it
\* was, reports each imported id that was stored with "already exists",
\* writes every other imported id, and succeeded + failed is the number of
\* imported memories.
C18_MergeNeverOverwrites ==
    [][(ret'.op = "importAll" /\ ret'.args[2] = "merge") =>
          LET mems == ret'.args[1].memories
              r == ret'.value
          IN /\ ~ret'.threw
             /\ \A id \in DOMAIN docs : id \in DOMAIN docs' /\ docs'[id] = docs[id]
             /\ \A id \in ImportedIds(mems) \cap DOMAIN docs :
                   \E i \in 1..Len(r.errors) :
                       r.errors[i].id = id /\ r.errors[i].msg = "already exists (skipped)"
             /\ \A id \in ImportedIds(mems) \ DOMAIN docs :
                   id \in DOMAIN docs' /\ id \in Range(r.ids)
             /\ DOMAIN docs' = DOMAIN docs \cup ImportedIds(mems)
             /\ r.succeeded + r.failed = Len(mems)]_vars

\* of two imported memories one was stored and kept its own tags, the other
\* was written
C18_Witness ==
    /\ ret.op = "importAll" /\ ret.args[2] = "merge"
    /\ Len(ret.args[1].memories) = 2
    /\ ret.value.succeeded = 1 /\ ret.value.failed = 1
    /\ \E i \in 1..2 :
          /\ ret.args[1].memories[i].id = ret.value.errors[1].id
          /\ docs[ret.value.errors[1].id].tags # ret.args[1].memories[i].tags

\* the ids of the memories an operation returned
ReturnedIds(r) == {m.id : m \in ReturnedMemories(r)}

\* C19: when importAll(data, "replace") has returned, the stored ids are
\* exactly the ids of data.memories, and the getAll, search or exportAll that
\* directly follows returns exactly the stored memories.
C19_ReplaceIsExact ==
    /\ []((ret.op = "importAll" /\ ret.args[2] = "replace") =>
            DOMAIN docs = ImportedIds(ret.args[1].memories))
    /\ [][(ret.op = "importAll" /\ ret.args[2] = "replace"
            /\ ret'.op \in {"getAll", "search", "exportAll"}) =>
              ReturnedIds(ret') = DOMAIN docs']_vars

\* the stored records whose expiresAt is set and at or before now
DueIds == {id \in DOMAIN docs : docs[id].expiresAt # (0 - 1) /\ docs[id].expiresAt <= now}

\* C20: cleanupExpired deletes exactly the records whose expiresAt is set and
\* at or before now, returns their number, leaves every other record as it
\* was, and commits a batch only when there is such a record.
C20_CleanupExact ==
    [][ret'.op = "cleanupExpired" =>
          /\ ~ret'.threw
          /\ DOMAIN docs' = DOMAIN docs \ DueIds
          /\ \A id \in DOMAIN docs' : docs'[id] = docs[id]
          /\ ret'.value = Cardinality(DueIds)
          /\ ret'.commits = (IF DueIds = {} THEN 0 ELSE 1)]_vars

\* at the very instant a record expired cleanupExpired removed it and kept a
\* permanent one
C20_Witness ==
    /\ ret.op = "cleanupExpired"
    /\ ret.value = 1
    /\ now = StartTime + 1
    /\ \E id \in DOMAIN docs : docs[id].expiresAt = (0 - 1)

\* needle occurs in hay when the case of the letters is ignored
ContainsIgnoringCase(hay, needle) ==
    \E k \in 0..(Len(hay) - Len(needle)) :
        \A i \in 1..Len(needle) : ToLowerChar(hay[k + i]) = ToLowerChar(needle[i])

\* C21: smartSearch returns, with relevance 1.00, every stored non-expired
\* memory whose fact contains the query whatever the case, and every
\* returned memory whose fact does not contain it has a relevance from 0.20
\* to below 1.00, tag boost included.  (Relevance is counted in hundredths.)
C21_ExactIsOneOthersBelow ==
    ret.op = "smartSearch" =>
        /\ \A id \in DOMAIN docs :
              (ContainsIgnoringCase(docs[id].fact, ret.args)
                  /\ (docs[id].expiresAt = (0 - 1) \/ docs[id].expiresAt >= now)) =>
                  \E i \in 1..Len(ret.value) :
                      ret.value[i].memory.id = id /\ ret.value[i].relevance = 100
        /\ \A i \in 1..Len(ret.value) :
              ~ContainsIgnoringCase(ret.value[i].memory.fact, ret.args) =>
                  (ret.value[i].relevance >= 20 /\ ret.value[i].relevance < 100)

\* one result holds the query; the other holds its words in another order
\* and was boosted by a tag to 0.95
C21_Witness ==
    /\ ret.op = "smartSearch"
    /\ ret.args = QueryTwoWords
    /\ \E i, j \in 1..Len(ret.value) :
          /\ ret.value[i].relevance = 100 /\ ret.value[i].memory.fact = FactWithSpace
          /\ ret.value[j].relevance = 95 /\ ret.value[j].memory.fact = FactWordsSwapped

\* a query with no character other than whitespace
IsBlankQuery(q) == \A i \in 1..Len(q) : q[i] = " "

\* C22: smartSearch with an empty or whitespace-only query returns an empty
\* result and does not throw.
C22_BlankQueryEmptyResult ==
    (ret.op = "smartSearch" /\ IsBlankQuery(ret.args)) =>
        (~ret.threw /\ ret.value = <<>>)

\* C23: link(a, b) with a or b not stored throws an error that says "not
\* found" and names the missing id, and changes no record.
C23_LinkMissingThrows ==
    [][(ret'.op = "link"
          /\ (ret'.args[1] \notin DOMAIN docs \/ ret'.args[2] \notin DOMAIN docs)) =>
            /\ ret'.threw
            /\ ret'.value.msg = "not found"
            /\ ret'.value.id \in {ret'.args[1], ret'.args[2]} \ DOMAIN docs
            /\ docs' = docs]_vars

\* link threw for a missing second id while the first is stored
C23_Witness ==
    /\ ret.op = "link" /\ ret.threw
    /\ ret.args[1] \in DOMAIN docs
    /\ ret.args[2] \notin DOMAIN docs
    /\ ret.value.id = ret.args[2]

\* relatedTo of id in collection d, nothing when id is not stored
RelatedIn(d, id) == IF id \in DOMAIN d THEN d[id].relatedTo ELSE <<>>

\* the collection d after the two updates of unlink(a, b) are committed
AfterUnlink(d, a, b) == batchCommit(d, <<WRemove(a, b), WRemove(b, a)>>, now, TRUE)

\* C24: unlink never throws, also when a or b is not stored; when it has
\* returned b is not in relatedTo(a) nor a in relatedTo(b); and unlink(a, b)
\* applied to the records link(a, b) has just written gives relatedTo(a) and
\* relatedTo(b) as they were before the link.
C24_UnlinkUndoesLink ==
    /\ [](ret.op = "unlink" => ~ret.threw)
    /\ [](ret.op = "unlink" /\ ~ret.threw =>
            /\ ret.args[2] \notin Range(RelatedIn(docs, ret.args[1]))
            /\ ret.args[1] \notin Range(RelatedIn(docs, ret.args[2])))
    /\ [][(ret'.op = "link" /\ ~ret'.threw) =>
            LET a == ret'.args[1]
                b == ret'.args[2]
                undone == AfterUnlink(docs', a, b)
            IN /\ undone[a].relatedTo = docs[a].relatedTo
               /\ undone[b].relatedTo = docs[b].relatedTo]_vars

\* the id an update or a togglePin was called with
TargetId(r) == IF r.op = "update" THEN r.args[1] ELSE r.args

\* C25: update and togglePin on an id that is not stored throw an error that
\* names the id and says "not found", write nothing, leave the store and the
\* cache as they were, and the error is one the retry executor does not
\* retry at any attempt.
C25_MissingIdThrowsUnchanged ==
    [][(ret'.op \in {"update", "togglePin"} /\ TargetId(ret') \notin DOMAIN docs) =>
          /\ ret'.threw
          /\ ret'.value.msg = "not found"
          /\ ret'.value.id = TargetId(ret')
          /\ ret'.commits = 0
          /\ docs' = docs
          /\ cache' = cache /\ cacheTimestamp' = cacheTimestamp
          /\ \A attempt \in 0..3 : ~shouldRetry(attempt, ret'.value.code)]_vars

\* update threw for a missing id while another record is stored and cached
C25_Witness ==
    /\ ret.op = "update" /\ ret.threw
    /\ docs # <<>>
    /\ cache.present /\ Len(cache.mems) > 0

\* the ids in relatedTo(id) that are stored and whose expiry is not in the past
LiveRelatedIds(id) ==
    {rid \in Range(docs[id].relatedTo) :
        rid \in DOMAIN docs /\ ~InThePast(docs[rid].expiresAt)}

\* C26: getRelated(id) throws "not found" exactly when id is not stored;
\* otherwise it returns the memories of exactly the ids of relatedTo(id)
\* that are stored and not expired, as they are stored.
C26_GetRelatedExact ==
    ret.op = "getRelated" =>
        /\ ret.threw <=> ret.args \notin DOMAIN docs
        /\ ret.threw => (ret.value.msg = "not found" /\ ret.value.id = ret.args)
        /\ ~ret.threw =>
              /\ {ret.value[i].id : i \in 1..Len(ret.value)} = LiveRelatedIds(ret.args)
              /\ \A i \in 1..Len(ret.value) :
                    /\ ret.value[i].fact = docs[ret.value[i].id].fact
                    /\ ret.value[i].expiresAt = docs[ret.value[i].id].expiresAt

\* the only related memory is stored but expired, and nothing was returned
C26_Witness ==
    /\ ret.op = "getRelated" /\ ~ret.threw
    /\ ret.value = <<>>
    /\ \E rid \in Range(docs[ret.args].relatedTo) :
          rid \in DOMAIN docs /\ InThePast(docs[rid].expiresAt)

\* the override names provider p, whatever the case of its letters
Requests(config, p) ==
    /\ config.embeddingProvider # <<>>
    /\ LET x == config.embeddingProvider[1]
       IN CASE p = "Gemini" -> EqualIgnoringCase(x, <<"g", "e", "m", "i", "n", "i">>)
            [] p = "OpenAI" ->
                  \/ EqualIgnoringCase(x, <<"o", "p", "e", "n", "a", "i">>)
                  \/ EqualIgnoringCase(x, <<"o", "p", "e", "n", "a", "i", "-", "c", "o", "m",
                                            "p", "a", "t", "i", "b", "l", "e">>)
            [] p = "Cohere" -> EqualIgnoringCase(x, <<"c", "o", "h", "e", "r", "e">>)

\* the credential of provider p is set and not empty
HasCredential(config, p) ==
    LET key == CASE p = "Gemini" -> config.geminiApiKey
                 [] p = "OpenAI" -> config.openaiApiKey
                 [] p = "Cohere" -> config.cohereApiKey
    IN key # <<>> /\ key[1] # <<>>

ProviderOrder == <<"Gemini", "OpenAI", "Cohere">>

\* C27: the service is that of the requested provider when its credential
\* is non-empty; otherwise that of the first of Gemini, OpenAI, Cohere whose
\* credential is non-empty; and there is none, and no error, exactly when
\* no credential is non-empty.
C27_ProviderSelection ==
    ret.op = "createEmbeddingService" =>
        LET config == ret.args
            wanted == {p \in Range(ProviderOrder) : Requests(config, p) /\ HasCredential(config, p)}
            usable == {i \in 1..3 : HasCredential(config, ProviderOrder[i])}
        IN /\ ~ret.threw
           /\ \A p \in wanted : ret.value = <<p>>
           /\ (wanted = {} /\ usable # {}) =>
                 ret.value = <<ProviderOrder[CHOOSE i \in usable : \A j \in usable : i <= j]>>
           /\ ret.value = <<>> <=> usable = {}

\* an upper-case override won against a provider earlier in the order
C27_Witness ==
    /\ ret.op = "createEmbeddingService"
    /\ ret.args.embeddingProvider = <<<<"O", "P", "E", "N", "A", "I">>>>
    /\ ret.args.geminiApiKey = <<<<"k">>>>
    /\ ret.value = <<"OpenAI">>

\* the records of ids are stored in d and none holds a vector
StoredWithoutVector(d, ids) ==
    \A id \in ids : id \in DOMAIN d /\ ~d[id].embedding

\* C28: when the embedding call throws during add, update, addBulk or
\* importAll, the operation returns success and its write is made without a
\* vector: a new or imported record holds none, and an updated record gets
\* its new fact while its embedding field is left as it was.
C28_EmbedFailureNeverBlocks ==
    [][/\ (ret'.op = "add" /\ add(PlainAdd, "throw")) =>
             /\ ~ret'.threw
             /\ ret'.value \in DOMAIN docs' \ DOMAIN docs
             /\ docs'[ret'.value].fact = PlainAdd.fact
             /\ StoredWithoutVector(docs', {ret'.value})
       /\ \A id \in DOMAIN docs :
             (ret'.op = "update" /\ update(id, FactUpdate, "throw")) =>
                /\ ~ret'.threw
                /\ docs'[id].fact = FactUpdate.fact[1]
                /\ ret'.value.fact = FactUpdate.fact[1]
                /\ docs'[id].embedding = docs[id].embedding
       /\ \A inputs \in EmbedBulks :
             (ret'.op = "addBulk" /\ addBulk(inputs, "throw")) =>
                /\ ~ret'.threw
                /\ ret'.value.succeeded = Len(inputs) /\ ret'.value.failed = 0
                /\ Range(ret'.value.ids) \cap DOMAIN docs = {}
                /\ StoredWithoutVector(docs', Range(ret'.value.ids))
       /\ \A mems \in EmbedImports, mode \in {"merge", "replace"} :
             (ret'.op = "importAll" /\ importAll([memories |-> mems], mode, "throw")) =>
                /\ ~ret'.threw
                /\ (mode = "replace" \/ mems[1].id \notin DOMAIN docs) =>
                      ret'.value.ids = <<mems[1].id>>
                /\ StoredWithoutVector(docs', Range(ret'.value.ids))
      ]_vars

\* an add whose embedding call threw has stored its record without a vector
C28_Witness ==
    /\ hasEmbeddings
    /\ ret.op = "add" /\ ~ret.threw
    /\ ret.value \in DOMAIN docs
    /\ ~docs[ret.value].embedding

\* stores d and d2 hold the same ids and, for each, the same fact, tags,
\* pinned, relatedTo and expiresAt, and the same createdAt when d has one
SameMemories(d, d2) ==
    /\ DOMAIN d2 = DOMAIN d
    /\ \A id \in DOMAIN d :
          /\ d2[id].fact = d[id].fact
          /\ d2[id].tags = d[id].tags
          /\ d2[id].pinned = d[id].pinned
          /\ d2[id].relatedTo = d[id].relatedTo
          /\ d2[id].expiresAt = d[id].expiresAt
          /\ d[id].createdAt # NullTime => d2[id].createdAt = d[id].createdAt

\* C29: importAll(exportAll(), "replace") leaves the same ids and, for each
\* id, the same fact, tags, pinned, relatedTo and expiresAt, and the same
\* createdAt when it was non-null.
C29_ExportImportRoundTrip ==
    [][(/\ ret.op = "exportAll"
        /\ ret'.op = "importAll"
        /\ ret'.args = <<[memories |-> ret.value.memories], "replace">>)
       => SameMemories(docs, docs')]_vars

\* expiresAt is set and not after the clock
DueNow(expiresAt) == expiresAt # NullTime /\ expiresAt <= now

\* no getById, getAll, search or smartSearch returns a memory that is due
C30_ReadsHideDue ==
    (ret.op \in {"getById", "getAll", "search", "smartSearch"} /\ ~ret.threw) =>
        \A m \in ReturnedMemories(ret) : ~DueNow(m.expiresAt)

\* every record cleanupExpired deletes is one getById would not return
C30_CleanupDeletesOnlyHidden ==
    ret'.op = "cleanupExpired" =>
        \A id \in DOMAIN docs \ DOMAIN docs' : isExpired(docToMemory(docs, id), now)

\* a record without expiresAt is not expired
C30_NullNeverExpires ==
    \A id \in DOMAIN docs :
        docs[id].expiresAt = NullTime => ~isExpired(docToMemory(docs, id), now)

\* C30: a memory whose expiresAt is set and <= now (= now included) is
\* absent from getById, getAll, search and smartSearch, so that
\* cleanupExpired never deletes a record a read at the same instant would
\* return; a memory with expiresAt = null is never expired.
C30_ExpiryInclusiveAndConsistent ==
    /\ []C30_ReadsHideDue
    /\ [][C30_CleanupDeletesOnlyHidden]_vars
    /\ []C30_NullNeverExpires

\* the last operation threw an error with a retryable code
TransientSurfaced ==
    ret.threw /\ ret.value.code # <<>> /\ ret.value.code[1] \in RETRYABLE_CODES

\* C31: an operation one of whose backend calls fails once with a retryable
\* code, and would succeed when repeated, completes successfully: the
\* transient error never reaches the caller.
C31_TransientNeverSurfaces == ~TransientSurfaced

\* C32: when the batch commit of chunk k of importAll is rejected, the error
\* reaches the caller, every record of the chunks before k is stored as
\* imported, and nothing of chunk k or of a later chunk is written: apart
\* from the records of the earlier chunks the store is as the import found
\* it (emptied first in replace mode).
C32_ChunksBeforeFailureStay ==
    [][\A mems \in ChunkImports, mode \in {"merge", "replace"}, k \in 1..2 :
          (/\ ret'.op = "importAll"
           /\ ret'.args = <<[memories |-> mems], mode>>
           /\ ret'.threw
           /\ importAllFailingOnce([memories |-> mems], mode, "vector", "commit", k,
                                   UNAVAILABLE))
          =>
          LET before == Take(mems, (k - 1) * BULK_LIMIT)
              kept == IF mode = "replace" THEN {} ELSE DOMAIN docs
              imported == {i \in 1..Len(before) : before[i].id \notin kept}
          IN /\ ret'.value = BackendError(UNAVAILABLE)
             /\ DOMAIN docs' = kept \cup {before[i].id : i \in imported}
             /\ \A id \in kept : docs'[id] = docs[id]
             /\ \A i \in imported :
                   /\ docs'[before[i].id].fact = before[i].fact
                   /\ docs'[before[i].id].tags = before[i].tags
      ]_vars

\* a replace import of two chunks failed at the second commit: the first
\* chunk is stored, the second is not
C32_Witness ==
    /\ ret.op = "importAll" /\ ret.threw
    /\ ret.args = <<[memories |-> LongImport], "replace">>
    /\ DOMAIN docs = {LongImport[i].id : i \in 1..BULK_LIMIT}
    /\ docs[NumIds + 1].tags = <<TagA>>

\* some whitespace-delimited word of the query occurs in some tag
WordInSomeTag(query, tags) ==
    \E w \in Range(words(toLowerCase(query))) :
        \E i \in 1..Len(tags) : includes(tags[i], w)

\* C33: a memory returned by smartSearch has its rounded relevance raised by
\* 0.15, capped at 1.00, exactly when at least one whitespace-delimited word
\* of the query is a substring of at least one of its tags.
C33_TagBoostPerWord ==
    ret.op = "smartSearch" =>
        \A i \in 1..Len(ret.value) :
            LET sm == ret.value[i]
                base == roundHundredths(computeRelevance(sm.memory.fact, ret.args,
                                                         sm.memory.tags))
            IN sm.relevance = IF WordInSomeTag(ret.args, sm.memory.tags)
                              THEN Min2(base + 15, 100)
                              ELSE base

\* C34: the embed calls of one embedBatch of the Gemini provider run one
\* after another: the call for texts[i+1] is in flight only when the call
\* for texts[i] has completed, so at most one call is in flight.
C34_GeminiBatchSequential ==
    /\ Cardinality(gem.inFlight) <= 1
    /\ \A i \in gem.inFlight : \A j \in 1..(i - 1) : gem.results[j] # "pending"

\* C35: the memories list of exportAll holds no memory whose expiresAt is in
\* the past, and its count is the number of stored memories that are not
\* expired.
C35_ExportHidesExpired ==
    ret.op = "exportAll" =>
        /\ \A m \in Range(ret.value.memories) : ~InThePast(m.expiresAt)
        /\ ret.value.count = Cardinality(DOMAIN docs \ StoredExpired)

\* C36: a togglePin(id) that returns successfully has flipped the stored
\* pinned flag exactly once: the stored flag, and the flag of the returned
\* memory, is the negation of the flag stored when the call started, also
\* when a backend call was rejected once and withRetry ran the function again.
C36_TogglePinFlipsOnce ==
    [][(ret'.op = "togglePin" /\ ~ret'.threw) =>
          /\ docs'[ret'.args].pinned = ~docs[ret'.args].pinned
          /\ ret'.value.pinned = ~docs[ret'.args].pinned]_vars

\* C37: a read served from the cache observes every mutation that returned
\* before it started: with the clock fixed and no record expired, a getAll
\* or search answered without a backend fetch returns exactly the stored
\* records, whatever refresh was suspended while the mutations ran.
C37_CachedReadSeesWrites ==
    (ret.op \in {"getAll", "search"} /\ ~ret.fetched) =>
        {m.id : m \in Range(ret.value)} = DOMAIN docs

\* what search(query) returns when called in the current state
SearchAnswer(query) ==
    SelectSeq(notExpired(cachedMemories),
              LAMBDA m : includes(toLowerCase(m.fact), toLowerCase(query)))

IsRemoval(r) ==
    \/ r.op \in {"delete", "deleteBulk", "cleanupExpired"}
    \/ r.op = "importAll" /\ r.args[2] = "replace"

\* C39: after delete, deleteBulk, cleanupExpired or a replace import has
\* removed a record, no stored memory holds the removed id in its relatedTo.
C39_NoDanglingAfterRemoval ==
    [][(IsRemoval(ret') /\ ~ret'.threw) =>
          \A removed \in DOMAIN docs \ DOMAIN docs' :
              \A id \in DOMAIN docs' : removed \notin Range(docs'[id].relatedTo)]_vars

\* record id is stored and its expiresAt is in the past
ExpiredUnswept(id) == id \in DOMAIN docs /\ InThePast(docs[id].expiresAt)

\* C40: on a stored record whose expiresAt is in the past, update and
\* togglePin succeed and return the record, delete returns true and removes
\* it, link succeeds, getRelated accepts it as source, and getById returns
\* null.
C40_IdOpsIgnoreExpiry ==
    [][/\ (ret'.op = "update" /\ ExpiredUnswept(ret'.args[1])) =>
             /\ ~ret'.threw
             /\ ret'.value.id = ret'.args[1]
             /\ ret'.value.expiresAt = docs[ret'.args[1]].expiresAt
             /\ ret'.value.pinned /\ docs'[ret'.args[1]].pinned
       /\ (ret'.op = "togglePin" /\ ExpiredUnswept(ret'.args)) =>
             /\ ~ret'.threw
             /\ ret'.value.id = ret'.args
             /\ ret'.value.expiresAt = docs[ret'.args].expiresAt
             /\ ret'.value.pinned = ~docs[ret'.args].pinned
       /\ (ret'.op = "delete" /\ ExpiredUnswept(ret'.args)) =>
             /\ ret'.value = TRUE
             /\ ret'.args \notin DOMAIN docs'
       /\ (ret'.op = "link"
             /\ ret'.args[1] \in DOMAIN docs /\ ret'.args[2] \in DOMAIN docs
             /\ (ExpiredUnswept(ret'.args[1]) \/ ExpiredUnswept(ret'.args[2]))) =>
             /\ ~ret'.threw
             /\ ret'.args[2] \in Range(docs'[ret'.args[1]].relatedTo)
             /\ ret'.args[1] \in Range(docs'[ret'.args[2]].relatedTo)
       /\ (ret'.op = "getRelated" /\ ExpiredUnswept(ret'.args)) => ~ret'.threw
       /\ (ret'.op = "getById" /\ ExpiredUnswept(ret'.args)) => ret'.value = <<>>
      ]_vars

\* togglePin has returned an expired record
C40_Witness ==
    /\ ret.op = "togglePin" /\ ~ret.threw
    /\ InThePast(ret.value.expiresAt)
    /\ ExpiredUnswept(ret.args)

====
